---- MODULE Spec2Model ----
(***************************************************************************)
(* Instruction classification and decoding engine of the Raydium /        *)
(* Launchpad transaction parser (parser.go).                               *)
(*                                                                         *)
(* A uint64 is carried as its eight little-endian bytes (base-256 digits,   *)
(* least significant first): binary.LittleEndian.Uint64(Data[a:b]) is the   *)
(* digit string SubSeq(data, a+1, b).  Go indexes from 0, TLA+ from 1.      *)
(***************************************************************************)
EXTENDS Integers, Sequences, FiniteSets, TLC

VARIABLES result, idx, instr, err, route, status, tx, builder, call

vars == <<result, idx, instr, err, route, status, tx, builder, call>>

(* ----------------------------- bounds --------------------------------- *)

MaxInstr == 2
MaxLen == 40
MaxAccounts == 8

(* ------------------------- program constants -------------------------- *)

RaydiumV4ProgramID == "675kPX9MHTjS2zt1qfr1NYHuzeLXfQM9H24wFSUt1Mp8"
RaydiumV5ProgramID == "5quBtoiQqxF9Jv6KYKctB59NT3gtJD2Y65kdnB1Uev3h"
RaydiumStakingProgramID == "EhhTKczWMGQt46ynNeRX1WfeagwwJd7ufHvCDjRxjo5Q"
RaydiumLiquidityProgramID == "27haf8L6oxUeXrHrgEgsexjSY5hbVUWEmvv9Nyxg8vQv"
RaydiumLaunchpadV1ProgramID == "LanMV9sAd7wArD4vJFi2qDdfnVhFxYSUg6eADduJ3uj"
RaydiumCpSwapProgramID == "CPMMoo8L3F4NbTegBCKVNunggL7H1ZpdTHKxQB5qKP1C"
RaydiumUnknownProgramID1 == "FoaFt2Dtz58RA6DPjbRb9t9z8sLJRChiGFTv21EfaseZ"
RaydiumUnknownProgramID2 == "LanMV9sAd7wArD4vJFi2qDdfnVhFxYSUg6eADduJ3uj"

\* the Launchpad V1 program of the program list, which the parser has no case for
RaydiumLaunchpadV1DocumentedID == "6EF8rrecthR5Dkzon8Nwu78hRvfCKubJ14M5uBEwF6P"
TokenProgramID == "TokenkegQfeZyiNwAJbNbGKPFXCWuBvf9Ss623VQ5DA"
SystemProgramID == "11111111111111111111111111111111"

\* solana.PublicKey{}: 32 zero bytes, whose base58 text is 32 ones
ZeroKey == "11111111111111111111111111111111"

solMint == "So11111111111111111111111111111111111111112"
usdcMint == "EPjFWdd5AufqSSqeM2qN1xzybapC8G4wEGGkZwyTDt1v"
usdtMint == "Es9vMFrzaCERmJfrF4H2FYD4KCoNkY11McCe8BenwNYB"

INSTRUCTION_INITIALIZE_POOL == 0
INSTRUCTION_SWAP == 1
INSTRUCTION_DEPOSIT == 2
INSTRUCTION_WITHDRAW == 3
INSTRUCTION_MIGRATE == 4
INSTRUCTION_CREATE_POOL == 9
INSTRUCTION_INITIALIZE == 10
INSTRUCTION_SWAP_BASE_IN == 11
INSTRUCTION_SWAP_BASE_OUT == 12
INSTRUCTION_BUY == 6
INSTRUCTION_SELL == 7
TOKEN_INSTRUCTION_TRANSFER == 3
TOKEN_INSTRUCTION_MINT_TO == 7

\* 8-byte discriminators, written as their little-endian bytes
COMPLEX_INITIALIZE == <<170, 244, 132, 140, 91, 61, 93, 23>>   \* 0x175d3d5b8c84f4aa
COMPLEX_SWAP == <<200, 135, 117, 225, 145, 158, 198, 248>>     \* 0xf8c69e91e17587c8
COMPLEX_BUY == <<234, 235, 218, 1, 18, 61, 6, 102>>            \* 0x66063d1201daebea
COMPLEX_SELL == <<34, 161, 109, 148, 156, 70, 18, 183>>        \* 0xb712469c946da122
COMPLEX_UNKNOWN_1 == <<149, 39, 222, 155, 211, 124, 152, 26>>  \* 0x1a987cd39bde2795
COMPLEX_UNKNOWN_2 == <<9, 13, 1, 1, 0, 0, 0, 4>>               \* 0x0400000001010d09
LAUNCHPAD_INITIALIZE == <<170, 244, 132, 140, 91, 61, 93, 23>> \* 0x175d3d5b8c84f4aa
LAUNCHPAD_BUY == <<234, 235, 218, 1, 18, 61, 6, 102>>          \* 0x66063d1201daebea
LAUNCHPAD_SELL == <<34, 161, 109, 148, 156, 70, 18, 183>>      \* 0xb712469c946da122
LAUNCHPAD_SWAP == <<200, 135, 117, 225, 145, 158, 198, 248>>   \* 0xf8c69e91e17587c8
LAUNCHPAD_MIGRATE == <<154, 143, 126, 111, 93, 78, 76, 74>>    \* 0x4a4c4e5d6f7e8f9a
LAUNCHPAD_REAL_1 == <<234, 217, 184, 231, 246, 193, 99, 6>>    \* 0x0663c1f6e7b8d9ea
LAUNCHPAD_REAL_2 == <<12, 155, 138, 127, 110, 93, 76, 27>>     \* 0x1b4c5d6e7f8a9b0c
LAUNCHPAD_REAL_3 == <<31, 14, 157, 140, 123, 106, 95, 46>>     \* 0x2e5f6a7b8c9d0e1f

(* ------------------------------ uint64 -------------------------------- *)

Zero64 == <<0, 0, 0, 0, 0, 0, 0, 0>>

\* binary.LittleEndian.Uint64(data[off : off+8])
Uint64(data, off) == SubSeq(data, off + 1, off + 8)

\* the eight little-endian bytes of a number below 2^31
RECURSIVE LEBytes(_, _)
LEBytes(n, k) == IF k = 0 THEN << >> ELSE <<n % 256>> \o LEBytes(n \div 256, k - 1)

LE64(n) == LEBytes(n, 8)

\* a < b on uint64, compared from the most significant byte down
RECURSIVE Lt64From(_, _, _)
Lt64From(a, b, k) ==
    IF k = 0 THEN FALSE
    ELSE IF a[k] # b[k] THEN a[k] < b[k]
    ELSE Lt64From(a, b, k - 1)

Lt64(a, b) == Lt64From(a, b, 8)

\* a - b on uint64 with borrow, modulo 2^64
RECURSIVE Sub64From(_, _, _, _)
Sub64From(a, b, k, borrow) ==
    IF k > 8 THEN << >>
    ELSE LET d == a[k] - b[k] - borrow
         IN  IF d < 0 THEN <<d + 256>> \o Sub64From(a, b, k + 1, 1)
             ELSE <<d>> \o Sub64From(a, b, k + 1, 0)

Sub64(a, b) == Sub64From(a, b, 1, 0)

(* -------------------------- account key table ------------------------- *)

\* message.AccountKeys of the transaction being decoded; key 0 is the signer
AccountKeys ==
    << "TraderWallet", solMint, "TokenMintA", "PoolA", usdcMint,
       SystemProgramID, TokenProgramID,
       RaydiumV4ProgramID, RaydiumV5ProgramID, RaydiumStakingProgramID,
       RaydiumLiquidityProgramID, RaydiumLaunchpadV1ProgramID,
       RaydiumCpSwapProgramID, RaydiumUnknownProgramID1,
       "OtherProgram", usdtMint, RaydiumLaunchpadV1DocumentedID >>

NumKeys == Len(AccountKeys)

InRange(i) == i < NumKeys

KeyAt(i) == AccountKeys[i + 1]

IsZero(key) == key = ZeroKey

(* ------------------------------ results ------------------------------- *)

EmptyTransaction ==
    [ Create |-> << >>, Trade |-> << >>, TradeBuys |-> << >>,
      TradeSells |-> << >>, Migrate |-> << >>, SwapBuys |-> << >>,
      SwapSells |-> << >> ]

NoInstr == [ programIDIndex |-> 0, accounts |-> << >>, data |-> << >> ]

\* no instruction builder constructed yet
NoBuilder ==
    [ kind |-> "none", programID |-> ZeroKey, keys |-> << >>,
      amount |-> Zero64, bound |-> Zero64, calls |-> {} ]

\* no library function called yet
NoCall == [ fn |-> "none" ]

\* outcome of one handler call: the result after it, its error ("nil" for
\* none), whether it panicked, and the chain of functions that ran
Ok(res, rt) == [ res |-> res, err |-> "nil", panicked |-> FALSE, route |-> rt ]

Fail(res, e, rt) == [ res |-> res, err |-> e, panicked |-> FALSE, route |-> rt ]

Panic(res, rt) == [ res |-> res, err |-> "panic: index out of range", panicked |-> TRUE, route |-> rt ]

isBaseCurrency_SolOnly(tokenMint) ==
    tokenMint = solMint

isBaseCurrency(tokenMint) ==
    tokenMint = solMint \/ tokenMint = usdcMint \/ tokenMint = usdtMint

\* a float64 ratio is kept as the exact pair of numerator and denominator
ZeroSlippage == [ num |-> Zero64, den |-> LE64(1) ]

calculateSlippage(actualAmount, expectedAmount) ==
    IF expectedAmount = Zero64 THEN ZeroSlippage
    ELSE IF ~ Lt64(actualAmount, expectedAmount) THEN ZeroSlippage
    ELSE [ num |-> Sub64(expectedAmount, actualAmount), den |-> expectedAmount ]

getKnownTokenSymbol(tokenMint) ==
    CASE tokenMint = solMint -> "SOL"
      [] tokenMint = usdcMint -> "USDC"
      [] tokenMint = usdtMint -> "USDT"
      [] OTHER -> "UNKNOWN"

(* --------------------------- leaf decoders ---------------------------- *)

\* the three appends of a trade decoded as a buy: the Trade event, its
\* instruction index in TradeBuys, and the SwapBuy detail
recordBuy_NoSwapDetail(res, tradeInfo, index, swapBuy) ==
    [ res EXCEPT !.Trade = Append(@, tradeInfo),
                 !.TradeBuys = Append(@, index) ]

recordBuy(res, tradeInfo, index, swapBuy) ==
    [ res EXCEPT !.Trade = Append(@, tradeInfo),
                 !.TradeBuys = Append(@, index),
                 !.SwapBuys = Append(@, swapBuy) ]

\* the three appends of a trade decoded as a sell
recordSell_AlsoBuy(res, tradeInfo, index, swapSell) ==
    [ res EXCEPT !.Trade = Append(@, tradeInfo),
                 !.TradeBuys = Append(@, index),
                 !.SwapBuys = Append(@, swapSell),
                 !.TradeSells = Append(@, index),
                 !.SwapSells = Append(@, swapSell) ]

recordSell(res, tradeInfo, index, swapSell) ==
    [ res EXCEPT !.Trade = Append(@, tradeInfo),
                 !.TradeSells = Append(@, index),
                 !.SwapSells = Append(@, swapSell) ]

parseCreatePoolInstruction_ThreeAccounts(ins, index, res, rt0) ==
    LET rt == Append(rt0, "parseCreatePoolInstruction")
        n == Len(ins.data)
        tokenDecimals == IF n >= 10 THEN ins.data[10] ELSE 9
        initialLiquidity == IF n >= 17 THEN Uint64(ins.data, 9) ELSE Zero64
    IN  IF Len(ins.accounts) < 3
        THEN Fail(res, "insufficient accounts for pool creation", rt)
        ELSE IF \E k \in 1..3 : ~ InRange(ins.accounts[k])
        THEN Panic(res, rt)
        ELSE LET tokenMint == KeyAt(ins.accounts[1])
                 createInfo ==
                   [ TokenMint |-> tokenMint,
                     PoolAddress |-> KeyAt(ins.accounts[2]),
                     Creator |-> KeyAt(ins.accounts[3]),
                     TokenDecimals |-> tokenDecimals,
                     TokenSymbol |-> getKnownTokenSymbol(tokenMint),
                     Amount |-> initialLiquidity,
                     Timestamp |-> 0 ]
             IN  Ok([res EXCEPT !.Create = Append(@, createInfo)], rt)

parseCreatePoolInstruction(ins, index, res, rt0) ==
    LET rt == Append(rt0, "parseCreatePoolInstruction")
        n == Len(ins.data)
        tokenDecimals == IF n >= 10 THEN ins.data[10] ELSE 9
        initialLiquidity == IF n >= 17 THEN Uint64(ins.data, 9) ELSE Zero64
    IN  IF Len(ins.accounts) < 8
        THEN Fail(res, "insufficient accounts for pool creation", rt)
        ELSE IF \E k \in 1..3 : ~ InRange(ins.accounts[k])
        THEN Panic(res, rt)
        ELSE LET tokenMint == KeyAt(ins.accounts[1])
                 createInfo ==
                   [ TokenMint |-> tokenMint,
                     PoolAddress |-> KeyAt(ins.accounts[2]),
                     Creator |-> KeyAt(ins.accounts[3]),
                     TokenDecimals |-> tokenDecimals,
                     TokenSymbol |-> getKnownTokenSymbol(tokenMint),
                     Amount |-> initialLiquidity,
                     Timestamp |-> 0 ]
             IN  Ok([res EXCEPT !.Create = Append(@, createInfo)], rt)

parseSwapInstruction(ins, index, res, rt0) ==
    LET rt == Append(rt0, "parseSwapInstruction")
        n == Len(ins.data)
        amountIn == IF n >= 9 THEN Uint64(ins.data, 1) ELSE Zero64
        minAmountOut == IF n >= 17 THEN Uint64(ins.data, 9) ELSE Zero64
    IN  IF Len(ins.accounts) < 6
        THEN Fail(res, "insufficient accounts for swap", rt)
        ELSE IF \E k \in 1..3 : ~ InRange(ins.accounts[k])
        THEN Panic(res, rt)
        ELSE LET tokenIn == KeyAt(ins.accounts[1])
                 tokenOut == KeyAt(ins.accounts[2])
                 pool == KeyAt(ins.accounts[3])
                 trader == KeyAt(0)
                 tradeInfo ==
                   [ InstructionIndex |-> index, TokenIn |-> tokenIn,
                     TokenOut |-> tokenOut, Pool |-> pool, Trader |-> trader,
                     AmountIn |-> amountIn, AmountOut |-> Zero64,
                     TradeType |-> "swap" ]
                 swapBuy ==
                   [ TokenIn |-> tokenIn, TokenOut |-> tokenOut,
                     AmountIn |-> amountIn, AmountOut |-> tradeInfo.AmountOut,
                     Pool |-> pool, Buyer |-> trader,
                     MinAmountOut |-> minAmountOut, Slippage |-> ZeroSlippage ]
                 swapSell ==
                   [ TokenIn |-> tokenIn, TokenOut |-> tokenOut,
                     AmountIn |-> amountIn, AmountOut |-> tradeInfo.AmountOut,
                     Pool |-> pool, Seller |-> trader,
                     MinAmountOut |-> minAmountOut, Slippage |-> ZeroSlippage ]
             IN  IF isBaseCurrency(tokenIn)
                 THEN Ok(recordBuy(res, tradeInfo, index, swapBuy), rt)
                 ELSE Ok(recordSell(res, tradeInfo, index, swapSell), rt)

parseBuyInstructionStandard_SkipsRepeat(ins, index, res, rt0) ==
    LET rt == Append(rt0, "parseBuyInstructionStandard")
        n == Len(ins.data)
        amountIn == IF n >= 17 THEN Uint64(ins.data, 1) ELSE Zero64
        maxAmountIn == IF n >= 17 THEN Uint64(ins.data, 9) ELSE Zero64
    IN  IF Len(ins.accounts) < 6
        THEN Fail(res, "insufficient accounts for buy", rt)
        ELSE LET tokenOut == IF InRange(ins.accounts[2])
                             THEN KeyAt(ins.accounts[2]) ELSE ZeroKey
                 pool == IF InRange(ins.accounts[3])
                         THEN KeyAt(ins.accounts[3]) ELSE ZeroKey
                 tradeInfo ==
                   [ InstructionIndex |-> index, TokenIn |-> solMint,
                     TokenOut |-> tokenOut, Pool |-> pool,
                     Trader |-> KeyAt(0),
                     AmountIn |-> amountIn, AmountOut |-> Zero64,
                     TradeType |-> "buy" ]
                 slippage == IF maxAmountIn # Zero64 /\ amountIn # Zero64
                             THEN calculateSlippage(amountIn, maxAmountIn)
                             ELSE ZeroSlippage
                 swapBuy ==
                   [ TokenIn |-> tradeInfo.TokenIn, TokenOut |-> tradeInfo.TokenOut,
                     AmountIn |-> amountIn, AmountOut |-> tradeInfo.AmountOut,
                     Pool |-> tradeInfo.Pool, Buyer |-> tradeInfo.Trader,
                     MinAmountOut |-> Zero64, Slippage |-> slippage ]
             IN  IF \E i \in 1..Len(res.Trade) : res.Trade[i].TokenOut = tokenOut
                 THEN Ok(res, rt)
                 ELSE Ok(recordBuy(res, tradeInfo, index, swapBuy), rt)

parseBuyInstructionStandard(ins, index, res, rt0) ==
    LET rt == Append(rt0, "parseBuyInstructionStandard")
        n == Len(ins.data)
        amountIn == IF n >= 17 THEN Uint64(ins.data, 1) ELSE Zero64
        maxAmountIn == IF n >= 17 THEN Uint64(ins.data, 9) ELSE Zero64
    IN  IF Len(ins.accounts) < 6
        THEN Fail(res, "insufficient accounts for buy", rt)
        ELSE LET tokenOut == IF InRange(ins.accounts[2])
                             THEN KeyAt(ins.accounts[2]) ELSE ZeroKey
                 pool == IF InRange(ins.accounts[3])
                         THEN KeyAt(ins.accounts[3]) ELSE ZeroKey
                 tradeInfo ==
                   [ InstructionIndex |-> index, TokenIn |-> solMint,
                     TokenOut |-> tokenOut, Pool |-> pool,
                     Trader |-> KeyAt(0),
                     AmountIn |-> amountIn, AmountOut |-> Zero64,
                     TradeType |-> "buy" ]
                 slippage == IF maxAmountIn # Zero64 /\ amountIn # Zero64
                             THEN calculateSlippage(amountIn, maxAmountIn)
                             ELSE ZeroSlippage
                 swapBuy ==
                   [ TokenIn |-> tradeInfo.TokenIn, TokenOut |-> tradeInfo.TokenOut,
                     AmountIn |-> amountIn, AmountOut |-> tradeInfo.AmountOut,
                     Pool |-> tradeInfo.Pool, Buyer |-> tradeInfo.Trader,
                     MinAmountOut |-> Zero64, Slippage |-> slippage ]
             IN  Ok(recordBuy(res, tradeInfo, index, swapBuy), rt)

parseSellInstructionStandard(ins, index, res, rt0) ==
    LET rt == Append(rt0, "parseSellInstructionStandard")
        n == Len(ins.data)
        amountIn == IF n >= 17 THEN Uint64(ins.data, 1) ELSE Zero64
        minAmountOut == IF n >= 17 THEN Uint64(ins.data, 9) ELSE Zero64
    IN  IF Len(ins.accounts) < 6
        THEN Fail(res, "insufficient accounts for sell", rt)
        ELSE LET tokenIn == IF InRange(ins.accounts[1])
                            THEN KeyAt(ins.accounts[1]) ELSE ZeroKey
                 pool == IF InRange(ins.accounts[3])
                         THEN KeyAt(ins.accounts[3]) ELSE ZeroKey
                 tradeInfo ==
                   [ InstructionIndex |-> index, TokenIn |-> tokenIn,
                     TokenOut |-> solMint, Pool |-> pool,
                     Trader |-> KeyAt(0),
                     AmountIn |-> amountIn, AmountOut |-> Zero64,
                     TradeType |-> "sell" ]
                 slippage == IF minAmountOut # Zero64 /\ tradeInfo.AmountOut # Zero64
                             THEN calculateSlippage(tradeInfo.AmountOut, minAmountOut)
                             ELSE ZeroSlippage
                 swapSell ==
                   [ TokenIn |-> tradeInfo.TokenIn, TokenOut |-> tradeInfo.TokenOut,
                     AmountIn |-> amountIn, AmountOut |-> tradeInfo.AmountOut,
                     Pool |-> tradeInfo.Pool, Seller |-> tradeInfo.Trader,
                     MinAmountOut |-> minAmountOut, Slippage |-> slippage ]
             IN  Ok(recordSell(res, tradeInfo, index, swapSell), rt)

parseDepositInstruction(ins, index, res, rt0) ==
    Ok(res, Append(rt0, "parseDepositInstruction"))

parseWithdrawInstruction(ins, index, res, rt0) ==
    Ok(res, Append(rt0, "parseWithdrawInstruction"))

parseMigrateInstruction_ShortPayloadFails(ins, index, res, rt0) ==
    LET rt == Append(rt0, "parseMigrateInstruction")
        amount == IF Len(ins.data) >= 9 THEN Uint64(ins.data, 1) ELSE Zero64
    IN  IF Len(ins.accounts) < 4
        THEN Fail(res, "insufficient accounts for migration", rt)
        ELSE IF Len(ins.data) < 9
        THEN Fail(res, "instruction data too short", rt)
        ELSE IF \E k \in 1..4 : ~ InRange(ins.accounts[k])
        THEN Panic(res, rt)
        ELSE LET migration ==
                   [ FromPool |-> KeyAt(ins.accounts[1]),
                     ToPool |-> KeyAt(ins.accounts[2]),
                     Token |-> KeyAt(ins.accounts[3]),
                     Owner |-> KeyAt(ins.accounts[4]),
                     Amount |-> amount, Timestamp |-> 0 ]
             IN  Ok([res EXCEPT !.Migrate = Append(@, migration)], rt)

parseMigrateInstruction(ins, index, res, rt0) ==
    LET rt == Append(rt0, "parseMigrateInstruction")
        amount == IF Len(ins.data) >= 9 THEN Uint64(ins.data, 1) ELSE Zero64
    IN  IF Len(ins.accounts) < 4
        THEN Fail(res, "insufficient accounts for migration", rt)
        ELSE IF \E k \in 1..4 : ~ InRange(ins.accounts[k])
        THEN Panic(res, rt)
        ELSE LET migration ==
                   [ FromPool |-> KeyAt(ins.accounts[1]),
                     ToPool |-> KeyAt(ins.accounts[2]),
                     Token |-> KeyAt(ins.accounts[3]),
                     Owner |-> KeyAt(ins.accounts[4]),
                     Amount |-> amount, Timestamp |-> 0 ]
             IN  Ok([res EXCEPT !.Migrate = Append(@, migration)], rt)

parseStakingInstruction(ins, index, res, rt0) ==
    Ok(res, Append(rt0, "parseStakingInstruction"))

parseLiquidityInstruction(ins, index, res, rt0) ==
    Ok(res, Append(rt0, "parseLiquidityInstruction"))

parseTokenTransferInstructionStandard(ins, index, res, rt0) ==
    Ok(res, Append(rt0, "parseTokenTransferInstructionStandard"))

parseTokenMintInstructionStandard(ins, index, res, rt0) ==
    Ok(res, Append(rt0, "parseTokenMintInstructionStandard"))

parseTokenInstruction(ins, index, res, rt0) ==
    LET rt == Append(rt0, "parseTokenInstruction")
    IN  IF Len(ins.data) = 0 THEN Ok(res, rt)
        ELSE CASE ins.data[1] = TOKEN_INSTRUCTION_TRANSFER ->
                    parseTokenTransferInstructionStandard(ins, index, res, rt)
               [] ins.data[1] = TOKEN_INSTRUCTION_MINT_TO ->
                    parseTokenMintInstructionStandard(ins, index, res, rt)
               [] OTHER -> Ok(res, rt)

(* ------------------------ heuristic decoders -------------------------- *)

Min(a, b) == IF a < b THEN a ELSE b

\* one pass of the account scan of parseAsSwapInstruction: the first key
\* that is not skipped becomes tokenOut, the next one pool
RECURSIVE ScanKeys(_, _, _, _)
ScanKeys(keys, i, trader, found) ==
    IF i > Len(keys) THEN found
    ELSE LET account == keys[i]
         IN  IF \/ account = "out of bounds"
                \/ account = trader
                \/ account = solMint
                \/ account = SystemProgramID
                \/ account = TokenProgramID
             THEN ScanKeys(keys, i + 1, trader, found)
             ELSE IF IsZero(found.tokenOut)
             THEN ScanKeys(keys, i + 1, trader, [found EXCEPT !.tokenOut = account])
             ELSE IF IsZero(found.pool)
             THEN ScanKeys(keys, i + 1, trader, [found EXCEPT !.pool = account])
             ELSE ScanKeys(keys, i + 1, trader, found)

parseAsSwapInstruction(ins, index, res, rt0) ==
    LET rt == Append(rt0, "parseAsSwapInstruction")
        n == Len(ins.data)
        amountIn == IF n >= 16 THEN Uint64(ins.data, 8) ELSE Zero64
        minAmountOut == IF n >= 24 THEN Uint64(ins.data, 16) ELSE Zero64
        trader == IF NumKeys > 0 THEN KeyAt(0) ELSE ZeroKey
        tokenIn == solMint
        instrKeys == [ k \in 1..Min(Len(ins.accounts), 10) |->
                         IF InRange(ins.accounts[k]) THEN KeyAt(ins.accounts[k])
                         ELSE "out of bounds" ]
        first == ScanKeys(instrKeys, 1, trader, [ tokenOut |-> ZeroKey, pool |-> ZeroKey ])
        messageKeys == [ k \in 1..(Min(NumKeys, 10) - 1) |-> AccountKeys[k + 1] ]
        found == IF IsZero(first.tokenOut)
                 THEN ScanKeys(messageKeys, 1, trader, first)
                 ELSE first
        tokenOut == found.tokenOut
        pool == found.pool
        tradeInfo ==
          [ InstructionIndex |-> index, TokenIn |-> tokenIn,
            TokenOut |-> tokenOut, Pool |-> pool, Trader |-> trader,
            AmountIn |-> amountIn, AmountOut |-> Zero64,
            TradeType |-> "swap" ]
        swapBuy ==
          [ TokenIn |-> tokenIn, TokenOut |-> tokenOut,
            AmountIn |-> amountIn, AmountOut |-> tradeInfo.AmountOut,
            Pool |-> pool, Buyer |-> trader,
            MinAmountOut |-> minAmountOut, Slippage |-> ZeroSlippage ]
        swapSell ==
          [ TokenIn |-> tokenIn, TokenOut |-> tokenOut,
            AmountIn |-> amountIn, AmountOut |-> tradeInfo.AmountOut,
            Pool |-> pool, Seller |-> trader,
            MinAmountOut |-> minAmountOut, Slippage |-> ZeroSlippage ]
    IN  IF isBaseCurrency(tokenIn)
        THEN Ok(recordBuy(res, tradeInfo, index, swapBuy), rt)
        ELSE Ok(recordSell(res, tradeInfo, index, swapSell), rt)

parseAsCreateOrMigrateInstruction(ins, index, res, rt0) ==
    LET rt == Append(rt0, "parseAsCreateOrMigrateInstruction")
    IN  IF Len(ins.accounts) >= 8
        THEN parseCreatePoolInstruction(ins, index, res, rt)
        ELSE IF Len(ins.accounts) >= 4
        THEN parseMigrateInstruction(ins, index, res, rt)
        ELSE Ok(res, rt)

parseGenericRaydiumInstruction_CreateFirst(ins, index, res, rt0) ==
    LET rt == Append(rt0, "parseGenericRaydiumInstruction")
    IN  IF Len(ins.accounts) >= 4 /\ Len(ins.data) >= 8
        THEN parseAsCreateOrMigrateInstruction(ins, index, res, rt)
        ELSE IF Len(ins.accounts) >= 6 /\ Len(ins.data) >= 16
        THEN parseAsSwapInstruction(ins, index, res, rt)
        ELSE Ok(res, rt)

parseGenericRaydiumInstruction(ins, index, res, rt0) ==
    LET rt == Append(rt0, "parseGenericRaydiumInstruction")
    IN  IF Len(ins.accounts) >= 6 /\ Len(ins.data) >= 16
        THEN parseAsSwapInstruction(ins, index, res, rt)
        ELSE IF Len(ins.accounts) >= 4 /\ Len(ins.data) >= 8
        THEN parseAsCreateOrMigrateInstruction(ins, index, res, rt)
        ELSE Ok(res, rt)

parseGenericLaunchpadInstruction_BuyThenSell(ins, index, res, rt0) ==
    LET rt == Append(rt0, "parseGenericLaunchpadInstruction")
        n == Len(ins.data)
        dataStart == IF n >= 8 THEN 8 ELSE 1
        amount == IF n >= dataStart + 8 THEN Uint64(ins.data, dataStart) ELSE Zero64
        buy == parseBuyInstructionStandard(ins, index, res, rt)
    IN  IF Len(ins.accounts) >= 8 /\ n >= dataStart + 32
        THEN parseCreatePoolInstruction(ins, index, res, rt)
        ELSE IF Len(ins.accounts) >= 6 /\ n >= dataStart + 16 /\ amount # Zero64
        THEN parseSellInstructionStandard(ins, index, buy.res, buy.route)
        ELSE IF Len(ins.accounts) >= 4 /\ n >= dataStart + 8
        THEN parseSwapInstruction(ins, index, res, rt)
        ELSE Ok(res, rt)

parseGenericLaunchpadInstruction(ins, index, res, rt0) ==
    LET rt == Append(rt0, "parseGenericLaunchpadInstruction")
        n == Len(ins.data)
        dataStart == IF n >= 8 THEN 8 ELSE 1
        amount == IF n >= dataStart + 8 THEN Uint64(ins.data, dataStart) ELSE Zero64
        buy == parseBuyInstructionStandard(ins, index, res, rt)
    IN  IF Len(ins.accounts) >= 8 /\ n >= dataStart + 32
        THEN parseCreatePoolInstruction(ins, index, res, rt)
        ELSE IF Len(ins.accounts) >= 6 /\ n >= dataStart + 16 /\ amount # Zero64
        THEN IF buy.err = "nil"
             THEN buy
             ELSE parseSellInstructionStandard(ins, index, buy.res, buy.route)
        ELSE IF Len(ins.accounts) >= 4 /\ n >= dataStart + 8
        THEN parseSwapInstruction(ins, index, res, rt)
        ELSE Ok(res, rt)

(* ---------------------------- dispatchers ----------------------------- *)

parseComplexRaydiumInstruction(ins, index, res, rt0, discriminator) ==
    LET rt == Append(rt0, "parseComplexRaydiumInstruction")
    IN  CASE discriminator = COMPLEX_INITIALIZE ->
               parseCreatePoolInstruction(ins, index, res, rt)
          [] discriminator = COMPLEX_SWAP ->
               parseSwapInstruction(ins, index, res, rt)
          [] discriminator = COMPLEX_BUY ->
               parseBuyInstructionStandard(ins, index, res, rt)
          [] discriminator = COMPLEX_SELL ->
               parseSellInstructionStandard(ins, index, res, rt)
          [] discriminator \in {COMPLEX_UNKNOWN_1, COMPLEX_UNKNOWN_2} ->
               parseGenericRaydiumInstruction(ins, index, res, rt)
          [] OTHER ->
               parseGenericRaydiumInstruction(ins, index, res, rt)

parseRaydiumInstruction(ins, index, res, rt0) ==
    LET rt == Append(rt0, "parseRaydiumInstruction")
        discriminator == ins.data[1]
    IN  IF Len(ins.data) = 0
        THEN Fail(res, "instruction data is empty", rt)
        ELSE IF Len(ins.data) >= 8 /\ Uint64(ins.data, 0) # Zero64
        THEN parseComplexRaydiumInstruction(ins, index, res, rt, Uint64(ins.data, 0))
        ELSE CASE discriminator \in {INSTRUCTION_INITIALIZE_POOL, INSTRUCTION_CREATE_POOL} ->
                    parseCreatePoolInstruction(ins, index, res, rt)
               [] discriminator \in {INSTRUCTION_SWAP, INSTRUCTION_SWAP_BASE_IN,
                                     INSTRUCTION_SWAP_BASE_OUT} ->
                    parseSwapInstruction(ins, index, res, rt)
               [] discriminator = INSTRUCTION_BUY ->
                    parseBuyInstructionStandard(ins, index, res, rt)
               [] discriminator = INSTRUCTION_SELL ->
                    parseSellInstructionStandard(ins, index, res, rt)
               [] discriminator = INSTRUCTION_DEPOSIT ->
                    parseDepositInstruction(ins, index, res, rt)
               [] discriminator = INSTRUCTION_WITHDRAW ->
                    parseWithdrawInstruction(ins, index, res, rt)
               [] discriminator = INSTRUCTION_MIGRATE ->
                    parseMigrateInstruction(ins, index, res, rt)
               [] OTHER -> Ok(res, rt)

parseComplexLaunchpadInstruction(ins, index, res, rt0, discriminator) ==
    LET rt == Append(rt0, "parseComplexLaunchpadInstruction")
    IN  CASE discriminator = LAUNCHPAD_INITIALIZE ->
               parseCreatePoolInstruction(ins, index, res, rt)
          [] discriminator \in {LAUNCHPAD_BUY, LAUNCHPAD_REAL_2} ->
               parseBuyInstructionStandard(ins, index, res, rt)
          [] discriminator = LAUNCHPAD_SELL ->
               parseSellInstructionStandard(ins, index, res, rt)
          [] discriminator = LAUNCHPAD_SWAP ->
               parseSwapInstruction(ins, index, res, rt)
          [] discriminator = LAUNCHPAD_MIGRATE ->
               parseMigrateInstruction(ins, index, res, rt)
          [] discriminator \in {LAUNCHPAD_REAL_1, LAUNCHPAD_REAL_3} ->
               parseGenericLaunchpadInstruction(ins, index, res, rt)
          [] OTHER ->
               parseGenericLaunchpadInstruction(ins, index, res, rt)

parseRaydiumLaunchpadInstructionStandard(ins, index, res, rt0) ==
    LET rt == Append(rt0, "parseRaydiumLaunchpadInstructionStandard")
        discriminator == ins.data[1]
    IN  IF Len(ins.data) = 0
        THEN Fail(res, "launchpad instruction data is empty", rt)
        ELSE IF Len(ins.data) >= 8 /\ Uint64(ins.data, 0) # Zero64
        THEN parseComplexLaunchpadInstruction(ins, index, res, rt, Uint64(ins.data, 0))
        ELSE CASE discriminator \in {INSTRUCTION_INITIALIZE, INSTRUCTION_INITIALIZE_POOL,
                                     INSTRUCTION_CREATE_POOL} ->
                    parseCreatePoolInstruction(ins, index, res, rt)
               [] discriminator = INSTRUCTION_BUY ->
                    parseBuyInstructionStandard(ins, index, res, rt)
               [] discriminator = INSTRUCTION_SELL ->
                    parseSellInstructionStandard(ins, index, res, rt)
               [] discriminator \in {INSTRUCTION_SWAP, INSTRUCTION_SWAP_BASE_IN,
                                     INSTRUCTION_SWAP_BASE_OUT} ->
                    parseSwapInstruction(ins, index, res, rt)
               [] discriminator = INSTRUCTION_MIGRATE ->
                    parseMigrateInstruction(ins, index, res, rt)
               [] OTHER ->
                    parseGenericLaunchpadInstruction(ins, index, res, rt)

\* the switch takes the first case that matches: the Launchpad case comes
\* before the case of the two unknown program IDs
parseInstruction_UnknownProgramFails(ins, index, res) ==
    LET rt == <<"parseInstruction">>
        programID == KeyAt(ins.programIDIndex)
    IN  IF ins.programIDIndex >= NumKeys
        THEN Fail(res, "invalid program ID index", rt)
        ELSE IF programID \in {RaydiumV4ProgramID, RaydiumV5ProgramID}
        THEN parseRaydiumInstruction(ins, index, res, rt)
        ELSE IF programID = RaydiumStakingProgramID
        THEN parseStakingInstruction(ins, index, res, rt)
        ELSE IF programID = RaydiumLiquidityProgramID
        THEN parseLiquidityInstruction(ins, index, res, rt)
        ELSE IF programID = RaydiumLaunchpadV1ProgramID
        THEN parseRaydiumLaunchpadInstructionStandard(ins, index, res, rt)
        ELSE IF programID = RaydiumCpSwapProgramID
        THEN parseRaydiumInstruction(ins, index, res, rt)
        ELSE IF programID \in {RaydiumUnknownProgramID1, RaydiumUnknownProgramID2}
        THEN parseRaydiumInstruction(ins, index, res, rt)
        ELSE IF programID = TokenProgramID
        THEN parseTokenInstruction(ins, index, res, rt)
        ELSE Fail(res, "unknown program", rt)

parseInstruction(ins, index, res) ==
    LET rt == <<"parseInstruction">>
        programID == KeyAt(ins.programIDIndex)
    IN  IF ins.programIDIndex >= NumKeys
        THEN Fail(res, "invalid program ID index", rt)
        ELSE IF programID \in {RaydiumV4ProgramID, RaydiumV5ProgramID}
        THEN parseRaydiumInstruction(ins, index, res, rt)
        ELSE IF programID = RaydiumStakingProgramID
        THEN parseStakingInstruction(ins, index, res, rt)
        ELSE IF programID = RaydiumLiquidityProgramID
        THEN parseLiquidityInstruction(ins, index, res, rt)
        ELSE IF programID = RaydiumLaunchpadV1ProgramID
        THEN parseRaydiumLaunchpadInstructionStandard(ins, index, res, rt)
        ELSE IF programID = RaydiumCpSwapProgramID
        THEN parseRaydiumInstruction(ins, index, res, rt)
        ELSE IF programID \in {RaydiumUnknownProgramID1, RaydiumUnknownProgramID2}
        THEN parseRaydiumInstruction(ins, index, res, rt)
        ELSE IF programID = TokenProgramID
        THEN parseTokenInstruction(ins, index, res, rt)
        ELSE Ok(res, rt)

(* ------------------------------ inputs -------------------------------- *)

\* index of a key in the account key table (0-based, as the code counts)
IndexOf(key) == CHOOSE i \in 0..(NumKeys - 1) : KeyAt(i) = key

OutOfRangeIndex == NumKeys

\* accounts 1.. of an instruction after its first: token, pool, signer, then
\* system and token program alternating
AccountPattern(k) ==
    CASE k = 2 -> IndexOf("TokenMintA")
      [] k = 3 -> IndexOf("PoolA")
      [] k = 4 -> IndexOf("TraderWallet")
      [] OTHER -> IF k % 2 = 1 THEN IndexOf(SystemProgramID) ELSE IndexOf(TokenProgramID)

AccountList(n, a0) == [ k \in 1..n |-> IF k = 1 THEN a0 ELSE AccountPattern(k) ]

\* a payload of the given length: the header bytes first, then either zero
\* bytes or bytes that each carry their own 1-based position
Payload(hdr, fill, len) ==
    [ k \in 1..len |-> IF k <= Len(hdr) THEN hdr[k]
                       ELSE IF fill = "zero" THEN 0 ELSE k ]

SwapScenarioData == <<INSTRUCTION_SWAP>> \o LE64(1000000000) \o LE64(950000000)

SimpleDiscriminators == {0, 1, 2, 3, 4, 5, 6, 7, 9, 10, 11, 12}

ComplexDiscriminators ==
    { COMPLEX_INITIALIZE, COMPLEX_SWAP, COMPLEX_BUY, COMPLEX_SELL,
      COMPLEX_UNKNOWN_1, COMPLEX_UNKNOWN_2, LAUNCHPAD_MIGRATE,
      LAUNCHPAD_REAL_1, LAUNCHPAD_REAL_2, LAUNCHPAD_REAL_3 }

Headers == { <<d>> : d \in SimpleDiscriminators } \cup ComplexDiscriminators

AllPayloads ==
    { Payload(h, f, n) : h \in Headers, f \in {"zero", "seq"}, n \in 0..MaxLen }
      \cup {SwapScenarioData}

FirstAccounts ==
    { IndexOf(solMint), IndexOf("TokenMintA"), IndexOf(usdcMint), OutOfRangeIndex }

AllAccountLists == { AccountList(n, a0) : n \in 0..MaxAccounts, a0 \in FirstAccounts }

ProgramIndexes ==
    { IndexOf(RaydiumV4ProgramID), IndexOf(RaydiumV5ProgramID),
      IndexOf(RaydiumStakingProgramID), IndexOf(RaydiumLiquidityProgramID),
      IndexOf(RaydiumLaunchpadV1ProgramID), IndexOf(RaydiumCpSwapProgramID),
      IndexOf(RaydiumUnknownProgramID1), IndexOf(TokenProgramID),
      IndexOf("OtherProgram"), OutOfRangeIndex }

InputSet(progs, accts, payloads) ==
    { [ programIDIndex |-> p, accounts |-> a, data |-> d ] :
        p \in progs, a \in accts, d \in payloads }

\* a few payloads of every kind, for transactions of several instructions
FewPayloads ==
    { << >>, SwapScenarioData,
      Payload(<<INSTRUCTION_SWAP>>, "seq", 5),
      Payload(<<INSTRUCTION_BUY>>, "seq", 5),
      Payload(<<INSTRUCTION_SELL>>, "seq", 5),
      Payload(<<INSTRUCTION_INITIALIZE>>, "seq", 5),
      Payload(<<INSTRUCTION_MIGRATE>>, "seq", 5),
      Payload(COMPLEX_SELL, "seq", 24),
      Payload(<<5>>, "seq", MaxLen),
      Payload(<<5>>, "zero", 24) }

FewAccountLists ==
    { AccountList(3, IndexOf(solMint)),
      AccountList(6, IndexOf(solMint)),
      AccountList(6, IndexOf("TokenMintA")),
      AccountList(MaxAccounts, IndexOf(solMint)),
      AccountList(MaxAccounts, OutOfRangeIndex) }

TxInputs ==
    InputSet({IndexOf(RaydiumV4ProgramID), IndexOf(RaydiumLaunchpadV1ProgramID)},
             FewAccountLists, FewPayloads)
      \cup InputSet(ProgramIndexes, {AccountList(3, IndexOf(solMint))},
                    {<< >>, Payload(<<TOKEN_INSTRUCTION_TRANSFER>>, "seq", 9),
                     Payload(<<TOKEN_INSTRUCTION_MINT_TO>>, "seq", 9)})

\* every payload and account list, for the decode of a single instruction
OneInputs ==
    InputSet({IndexOf(RaydiumV4ProgramID), IndexOf(RaydiumLaunchpadV1ProgramID)},
             AllAccountLists, AllPayloads)
      \cup InputSet({IndexOf(RaydiumV5ProgramID), IndexOf(RaydiumCpSwapProgramID),
                     IndexOf(RaydiumUnknownProgramID1)},
                    AllAccountLists, FewPayloads)
      \cup InputSet({IndexOf(RaydiumLaunchpadV1DocumentedID)},
                    {AccountList(6, IndexOf(solMint)),
                     AccountList(MaxAccounts, IndexOf(solMint))},
                    FewPayloads)
      \cup TxInputs

(* --------------------------- Geyser format ---------------------------- *)

Token2022ProgramID == "TokenzQdBNbLqP5VEhdkAS6EPFLC1PHnBqCXEpPxuEb"

\* a *TransactionMeta that is nil
NilMeta == [ present |-> FALSE, PreBalances |-> << >>, PostBalances |-> << >> ]

Meta(pre, post) == [ present |-> TRUE, PreBalances |-> pre, PostBalances |-> post ]

\* a GeyserInstruction carries the keys themselves: the compiled instruction
\* with its program and account indices looked up in the account keys
GeyserInstruction(ins) ==
    [ ProgramID |-> KeyAt(ins.programIDIndex),
      Accounts |-> [ k \in 1..Len(ins.accounts) |-> KeyAt(ins.accounts[k]) ],
      Data |-> ins.data ]

extractTokenSymbol(tokenMint, meta) == getKnownTokenSymbol(tokenMint)

\* PostBalances[1] - PreBalances[1] in uint64 arithmetic, 0 without balances
extractAmountOutFromMeta(accounts, meta) ==
    IF /\ meta.present
       /\ Len(meta.PostBalances) > 0
       /\ Len(meta.PreBalances) > 0
       /\ Len(meta.PreBalances) > 1
       /\ Len(meta.PostBalances) > 1
    THEN Sub64(meta.PostBalances[2], meta.PreBalances[2])
    ELSE Zero64

parseGeyserCreatePoolInstruction(gi, index, res, meta, rt0) ==
    LET rt == Append(rt0, "parseGeyserCreatePoolInstruction")
        n == Len(gi.Data)
        tokenDecimals == IF n >= 17 THEN gi.Data[10] ELSE 9
        initialLiquidity == IF n >= 17 THEN Uint64(gi.Data, 9) ELSE Zero64
    IN  IF Len(gi.Accounts) < 8
        THEN Fail(res, "insufficient accounts for pool creation", rt)
        ELSE LET createInfo ==
                   [ TokenMint |-> gi.Accounts[1],
                     PoolAddress |-> gi.Accounts[2],
                     Creator |-> gi.Accounts[3],
                     TokenDecimals |-> tokenDecimals,
                     TokenSymbol |-> extractTokenSymbol(gi.Accounts[1], meta),
                     Amount |-> initialLiquidity,
                     Timestamp |-> 0 ]
             IN  Ok([res EXCEPT !.Create = Append(@, createInfo)], rt)

parseGeyserSwapInstruction(gi, index, res, meta, rt0) ==
    LET rt == Append(rt0, "parseGeyserSwapInstruction")
        n == Len(gi.Data)
        amountIn == IF n >= 25 THEN Uint64(gi.Data, 1) ELSE Zero64
        minAmountOut == IF n >= 25 THEN Uint64(gi.Data, 9) ELSE Zero64
        amountOut == IF n >= 25 THEN extractAmountOutFromMeta(gi.Accounts, meta)
                     ELSE Zero64
    IN  IF Len(gi.Accounts) < 6
        THEN Fail(res, "insufficient accounts for swap", rt)
        ELSE LET tradeInfo ==
                   [ InstructionIndex |-> index, TokenIn |-> gi.Accounts[1],
                     TokenOut |-> gi.Accounts[2], Pool |-> gi.Accounts[3],
                     Trader |-> gi.Accounts[1],
                     AmountIn |-> amountIn, AmountOut |-> amountOut,
                     TradeType |-> "swap" ]
                 slippage == calculateSlippage(amountOut, minAmountOut)
                 swapBuy ==
                   [ TokenIn |-> tradeInfo.TokenIn, TokenOut |-> tradeInfo.TokenOut,
                     AmountIn |-> amountIn, AmountOut |-> amountOut,
                     Pool |-> tradeInfo.Pool, Buyer |-> tradeInfo.Trader,
                     MinAmountOut |-> minAmountOut, Slippage |-> slippage ]
                 swapSell ==
                   [ TokenIn |-> tradeInfo.TokenIn, TokenOut |-> tradeInfo.TokenOut,
                     AmountIn |-> amountIn, AmountOut |-> amountOut,
                     Pool |-> tradeInfo.Pool, Seller |-> tradeInfo.Trader,
                     MinAmountOut |-> minAmountOut, Slippage |-> slippage ]
             IN  IF isBaseCurrency(tradeInfo.TokenIn)
                 THEN Ok(recordBuy(res, tradeInfo, index, swapBuy), rt)
                 ELSE Ok(recordSell(res, tradeInfo, index, swapSell), rt)

parseGeyserBuyInstruction(gi, index, res, meta, rt0) ==
    LET rt == Append(rt0, "parseGeyserBuyInstruction")
        n == Len(gi.Data)
        amountIn == IF n >= 17 THEN Uint64(gi.Data, 1) ELSE Zero64
        maxAmountIn == IF n >= 17 THEN Uint64(gi.Data, 9) ELSE Zero64
        amountOut == extractAmountOutFromMeta(gi.Accounts, meta)
    IN  IF Len(gi.Accounts) < 6
        THEN Fail(res, "insufficient accounts for buy", rt)
        ELSE LET tradeInfo ==
                   [ InstructionIndex |-> index, TokenIn |-> gi.Accounts[1],
                     TokenOut |-> gi.Accounts[2], Pool |-> gi.Accounts[3],
                     Trader |-> gi.Accounts[1],
                     AmountIn |-> amountIn, AmountOut |-> amountOut,
                     TradeType |-> "buy" ]
                 slippage == IF maxAmountIn # Zero64 /\ amountIn # Zero64
                             THEN calculateSlippage(amountIn, maxAmountIn)
                             ELSE ZeroSlippage
                 swapBuy ==
                   [ TokenIn |-> tradeInfo.TokenIn, TokenOut |-> tradeInfo.TokenOut,
                     AmountIn |-> amountIn, AmountOut |-> tradeInfo.AmountOut,
                     Pool |-> tradeInfo.Pool, Buyer |-> tradeInfo.Trader,
                     MinAmountOut |-> Zero64, Slippage |-> slippage ]
             IN  Ok(recordBuy(res, tradeInfo, index, swapBuy), rt)

parseGeyserSellInstruction(gi, index, res, meta, rt0) ==
    LET rt == Append(rt0, "parseGeyserSellInstruction")
        n == Len(gi.Data)
        amountIn == IF n >= 17 THEN Uint64(gi.Data, 1) ELSE Zero64
        minAmountOut == IF n >= 17 THEN Uint64(gi.Data, 9) ELSE Zero64
        amountOut == extractAmountOutFromMeta(gi.Accounts, meta)
    IN  IF Len(gi.Accounts) < 6
        THEN Fail(res, "insufficient accounts for sell", rt)
        ELSE LET tradeInfo ==
                   [ InstructionIndex |-> index, TokenIn |-> gi.Accounts[1],
                     TokenOut |-> gi.Accounts[2], Pool |-> gi.Accounts[3],
                     Trader |-> gi.Accounts[1],
                     AmountIn |-> amountIn, AmountOut |-> amountOut,
                     TradeType |-> "sell" ]
                 slippage == IF minAmountOut # Zero64 /\ tradeInfo.AmountOut # Zero64
                             THEN calculateSlippage(tradeInfo.AmountOut, minAmountOut)
                             ELSE ZeroSlippage
                 swapSell ==
                   [ TokenIn |-> tradeInfo.TokenIn, TokenOut |-> tradeInfo.TokenOut,
                     AmountIn |-> amountIn, AmountOut |-> tradeInfo.AmountOut,
                     Pool |-> tradeInfo.Pool, Seller |-> tradeInfo.Trader,
                     MinAmountOut |-> minAmountOut, Slippage |-> slippage ]
             IN  Ok(recordSell(res, tradeInfo, index, swapSell), rt)

parseGeyserMigrateInstruction(gi, index, res, meta, rt0) ==
    LET rt == Append(rt0, "parseGeyserMigrateInstruction")
        amount == IF Len(gi.Data) >= 9 THEN Uint64(gi.Data, 1) ELSE Zero64
    IN  IF Len(gi.Accounts) < 4
        THEN Fail(res, "insufficient accounts for migration", rt)
        ELSE LET migration ==
                   [ FromPool |-> gi.Accounts[1], ToPool |-> gi.Accounts[2],
                     Token |-> gi.Accounts[3], Owner |-> gi.Accounts[4],
                     Amount |-> amount, Timestamp |-> 0 ]
             IN  Ok([res EXCEPT !.Migrate = Append(@, migration)], rt)

parseTokenTransferInstruction(gi, index, res, meta, rt0) ==
    Ok(res, Append(rt0, "parseTokenTransferInstruction"))

parseTokenMintInstruction(gi, index, res, meta, rt0) ==
    Ok(res, Append(rt0, "parseTokenMintInstruction"))

parseRaydiumGeyserInstruction(gi, index, res, meta, rt0) ==
    LET rt == Append(rt0, "parseRaydiumGeyserInstruction")
    IN  IF Len(gi.Data) = 0 THEN Fail(res, "instruction data is empty", rt)
        ELSE LET discriminator == gi.Data[1]
             IN  IF discriminator \in {INSTRUCTION_INITIALIZE_POOL, INSTRUCTION_CREATE_POOL}
                 THEN parseGeyserCreatePoolInstruction(gi, index, res, meta, rt)
                 ELSE IF discriminator \in {INSTRUCTION_SWAP, INSTRUCTION_SWAP_BASE_IN,
                                            INSTRUCTION_SWAP_BASE_OUT}
                 THEN parseGeyserSwapInstruction(gi, index, res, meta, rt)
                 ELSE IF discriminator = INSTRUCTION_BUY
                 THEN parseGeyserBuyInstruction(gi, index, res, meta, rt)
                 ELSE IF discriminator = INSTRUCTION_SELL
                 THEN parseGeyserSellInstruction(gi, index, res, meta, rt)
                 ELSE IF discriminator = INSTRUCTION_MIGRATE
                 THEN parseGeyserMigrateInstruction(gi, index, res, meta, rt)
                 ELSE Ok(res, rt)

parseRaydiumLaunchpadInstruction(gi, index, res, meta, rt0) ==
    LET rt == Append(rt0, "parseRaydiumLaunchpadInstruction")
    IN  IF Len(gi.Data) = 0 THEN Fail(res, "launchpad instruction data is empty", rt)
        ELSE LET discriminator == gi.Data[1]
             IN  IF discriminator = INSTRUCTION_INITIALIZE
                 THEN parseGeyserCreatePoolInstruction(gi, index, res, meta, rt)
                 ELSE IF discriminator = INSTRUCTION_BUY
                 THEN parseGeyserBuyInstruction(gi, index, res, meta, rt)
                 ELSE IF discriminator = INSTRUCTION_SELL
                 THEN parseGeyserSellInstruction(gi, index, res, meta, rt)
                 ELSE Ok(res, rt)

parseRaydiumCpSwapInstruction(gi, index, res, meta, rt0) ==
    LET rt == Append(rt0, "parseRaydiumCpSwapInstruction")
    IN  IF Len(gi.Data) = 0 THEN Fail(res, "cp swap instruction data is empty", rt)
        ELSE IF gi.Data[1] \in {INSTRUCTION_SWAP_BASE_IN, INSTRUCTION_SWAP_BASE_OUT}
        THEN parseGeyserSwapInstruction(gi, index, res, meta, rt)
        ELSE Ok(res, rt)

parseTokenGeyserInstruction(gi, index, res, meta, rt0) ==
    LET rt == Append(rt0, "parseTokenGeyserInstruction")
    IN  IF Len(gi.Data) = 0 THEN Ok(res, rt)
        ELSE IF gi.Data[1] = TOKEN_INSTRUCTION_TRANSFER
        THEN parseTokenTransferInstruction(gi, index, res, meta, rt)
        ELSE IF gi.Data[1] = TOKEN_INSTRUCTION_MINT_TO
        THEN parseTokenMintInstruction(gi, index, res, meta, rt)
        ELSE Ok(res, rt)

parseGeyserInstructionWrapper(gi, index, res, meta) ==
    LET rt == <<"parseGeyserInstructionWrapper">>
        programID == gi.ProgramID
    IN  IF programID \in {RaydiumV4ProgramID, RaydiumV5ProgramID}
        THEN parseRaydiumGeyserInstruction(gi, index, res, meta, rt)
        ELSE IF programID = RaydiumLaunchpadV1ProgramID
        THEN parseRaydiumLaunchpadInstruction(gi, index, res, meta, rt)
        ELSE IF programID = RaydiumCpSwapProgramID
        THEN parseRaydiumCpSwapInstruction(gi, index, res, meta, rt)
        ELSE IF programID \in {TokenProgramID, Token2022ProgramID}
        THEN parseTokenGeyserInstruction(gi, index, res, meta, rt)
        ELSE Ok(res, rt)

(* --------------------------- state machine ---------------------------- *)

\* the transaction being decoded, beyond its top-level instructions: its
\* format, its meta, its inner instructions (groups of a parent index and the
\* instructions that parent invoked), and the inner instruction that is next
\* (group g, 1-based; sub-index j, 0-based)
Transaction(format, meta, inner) ==
    [ format |-> format, meta |-> meta, inner |-> inner, g |-> 1, j |-> 0 ]

StandardTx == Transaction("standard", NilMeta, << >>)

Init ==
    /\ result = EmptyTransaction
    /\ idx = 0
    /\ instr = NoInstr
    /\ err = "nil"
    /\ route = << >>
    /\ status = "running"
    /\ tx = StandardTx
    /\ builder = NoBuilder
    /\ call = NoCall

\* one iteration of the loop over tx.Message.Instructions
Decode_AbortOnError(ins) ==
    LET out == parseInstruction(ins, idx, result)
    IN  /\ result' = out.res
        /\ err' = out.err
        /\ route' = out.route
        /\ instr' = ins
        /\ idx' = idx + 1
        /\ status' = IF out.panicked THEN "panicked"
                      ELSE IF out.err # "nil" THEN "aborted" ELSE "running"
        /\ tx' = tx
        /\ UNCHANGED <<builder, call>>

Decode(ins) ==
    LET out == parseInstruction(ins, idx, result)
    IN  /\ result' = out.res
        /\ err' = out.err
        /\ route' = out.route
        /\ instr' = ins
        /\ idx' = idx + 1
        /\ status' = IF out.panicked THEN "panicked" ELSE "running"
        /\ tx' = tx
        /\ UNCHANGED <<builder, call>>

ParseNextInstruction ==
    /\ status = "running"
    /\ idx < MaxInstr
    /\ \E ins \in TxInputs : Decode(ins)

ReturnResult ==
    /\ status = "running"
    /\ status' = "returned"
    /\ UNCHANGED <<result, idx, instr, err, route, tx, builder, call>>

Next == ParseNextInstruction \/ ReturnResult

Spec == Init /\ [][Next]_vars

\* the decode of one instruction into an empty result
ParseOneInstruction ==
    /\ status = "running"
    /\ idx = 0
    /\ \E ins \in OneInputs : Decode(ins)

NextOne == ParseOneInstruction \/ ReturnResult

SpecOne == Init /\ [][NextOne]_vars

\* ---- whole transactions of either format, inner instructions included ----

GeyserInputs ==
    InputSet({IndexOf(RaydiumV4ProgramID)},
             {AccountList(6, IndexOf(solMint)), AccountList(6, IndexOf("TokenMintA"))},
             {Payload(<<INSTRUCTION_SWAP>>, "seq", 25),
              Payload(<<INSTRUCTION_SWAP>>, "seq", 17)})
      \cup InputSet({IndexOf(RaydiumV4ProgramID)},
                    {AccountList(MaxAccounts, IndexOf("TokenMintA")),
                     AccountList(3, IndexOf(solMint))},
                    {Payload(<<INSTRUCTION_CREATE_POOL>>, "seq", 17),
                     Payload(<<INSTRUCTION_MIGRATE>>, "seq", 9),
                     Payload(<<5>>, "seq", 9), << >>})
      \cup InputSet({IndexOf(RaydiumLaunchpadV1ProgramID)},
                    {AccountList(6, IndexOf(solMint))},
                    {Payload(<<INSTRUCTION_BUY>>, "seq", 17),
                     Payload(<<INSTRUCTION_SELL>>, "seq", 17),
                     Payload(<<INSTRUCTION_INITIALIZE>>, "seq", 17),
                     Payload(<<5>>, "seq", 9), << >>})
      \cup InputSet({IndexOf(RaydiumCpSwapProgramID)},
                    {AccountList(6, IndexOf(usdcMint))},
                    {Payload(<<INSTRUCTION_SWAP_BASE_IN>>, "seq", 25),
                     Payload(<<INSTRUCTION_SWAP>>, "seq", 25), << >>})
      \cup InputSet({IndexOf(TokenProgramID)},
                    {AccountList(3, IndexOf(solMint))},
                    {<< >>, Payload(<<TOKEN_INSTRUCTION_TRANSFER>>, "seq", 9),
                     Payload(<<TOKEN_INSTRUCTION_MINT_TO>>, "seq", 9),
                     Payload(<<5>>, "seq", 9)})
      \cup InputSet({IndexOf("OtherProgram")},
                    {AccountList(3, IndexOf(solMint))}, {Payload(<<1>>, "seq", 9)})

\* top-level instructions of a standard-format transaction: one that decodes
\* to a Trade event and three that fail
TopInputs ==
    InputSet({IndexOf(RaydiumV4ProgramID)},
             {AccountList(6, IndexOf(solMint)), AccountList(3, IndexOf(solMint))},
             {Payload(<<INSTRUCTION_SWAP>>, "seq", 5), << >>})

\* instructions that a top-level instruction invokes
InnerInputs ==
    InputSet({IndexOf(RaydiumV4ProgramID)},
             {AccountList(6, IndexOf(solMint))},
             {Payload(<<INSTRUCTION_SWAP>>, "seq", 25)})
      \cup InputSet({IndexOf(TokenProgramID)},
                    {AccountList(3, IndexOf(solMint))},
                    {Payload(<<TOKEN_INSTRUCTION_TRANSFER>>, "seq", 9)})

InnerGroup(index, instructions) == [ Index |-> index, Instructions |-> instructions ]

\* GeyserTransaction.InnerInstructions: no group, one group, or the groups of
\* parents 0 and 1
InnerChoices ==
    { << >> }
      \cup { <<InnerGroup(p, <<a>>)>> : p \in {0, 1}, a \in InnerInputs }
      \cup { <<InnerGroup(0, <<a, b>>)>> : a \in InnerInputs, b \in InnerInputs }
      \cup { <<InnerGroup(0, <<a>>), InnerGroup(1, <<b>>)>> :
               a \in InnerInputs, b \in InnerInputs }

\* nil, balances of one account only, a balance that grew, one that shrank
MetaChoices ==
    { NilMeta,
      Meta(<<LE64(10)>>, <<LE64(9)>>),
      Meta(<<LE64(10), LE64(3)>>, <<LE64(9), LE64(5)>>),
      Meta(<<LE64(10), LE64(5)>>, <<LE64(9), LE64(3)>>) }

TxChoices ==
    { Transaction("standard", NilMeta, inner) : inner \in InnerChoices }
      \cup { Transaction("geyser", meta, inner) :
               meta \in MetaChoices, inner \in InnerChoices }

InitTx ==
    /\ result = EmptyTransaction
    /\ idx = 0
    /\ instr = NoInstr
    /\ err = "nil"
    /\ route = << >>
    /\ status = "running"
    /\ tx \in TxChoices
    /\ builder = NoBuilder
    /\ call = NoCall

\* every inner group names a top-level instruction of the transaction, when
\* the transaction has idx top-level instructions
InnerParentsValid == \A g \in 1..Len(tx.inner) : tx.inner[g].Index < idx

InnerDone == tx.g > Len(tx.inner)

\* one iteration of a loop of parseGeyserFormatTransaction
DecodeGeyser(ins, index) ==
    LET out == parseGeyserInstructionWrapper(GeyserInstruction(ins), index, result, tx.meta)
    IN  /\ result' = out.res
        /\ err' = out.err
        /\ route' = out.route
        /\ instr' = ins
        /\ status' = IF out.panicked THEN "panicked" ELSE "running"

\* the loop of parseStandardTransaction over tx.Message.Instructions
ParseStandardInstruction ==
    /\ status = "running"
    /\ tx.format = "standard"
    /\ idx < MaxInstr
    /\ \E ins \in TopInputs : Decode(ins)

\* the loop of parseGeyserFormatTransaction over geyserTx.Instructions
ParseGeyserInstruction ==
    /\ status = "running"
    /\ tx.format = "geyser"
    /\ tx.g = 1 /\ tx.j = 0
    /\ idx < MaxInstr
    /\ \E ins \in GeyserInputs : DecodeGeyser(ins, idx)
    /\ idx' = idx + 1
    /\ tx' = tx
    /\ UNCHANGED <<builder, call>>

\* the loops of parseGeyserFormatTransaction over geyserTx.InnerInstructions
ParseGeyserInnerInstruction ==
    /\ status = "running"
    /\ tx.format = "geyser"
    /\ InnerParentsValid
    /\ ~ InnerDone
    /\ LET innerInstr == tx.inner[tx.g]
           last == tx.j + 1 = Len(innerInstr.Instructions)
       IN  /\ DecodeGeyser(innerInstr.Instructions[tx.j + 1], innerInstr.Index * 100 + tx.j)
           /\ tx' = [ tx EXCEPT !.g = IF last THEN @ + 1 ELSE @,
                                !.j = IF last THEN 0 ELSE @ + 1 ]
    /\ idx' = idx
    /\ UNCHANGED <<builder, call>>

\* return result, nil: after the loop over the top-level instructions on the
\* standard format, after the loops over the inner instructions on Geyser's
ReturnTransaction ==
    /\ status = "running"
    /\ InnerParentsValid
    /\ tx.format = "geyser" => InnerDone
    /\ status' = "returned"
    /\ UNCHANGED <<result, idx, instr, err, route, tx, builder, call>>

NextTx ==
    \/ ParseStandardInstruction
    \/ ParseGeyserInstruction
    \/ ParseGeyserInnerInstruction
    \/ ReturnTransaction

SpecTx == InitTx /\ [][NextTx]_vars

(* ------------------------------ helpers ------------------------------- *)

Range(seq) == { seq[i] : i \in 1..Len(seq) }

EventCount(res) == Len(res.Create) + Len(res.Trade) + Len(res.Migrate)

LastCall == IF route = << >> THEN "none" ELSE route[Len(route)]

Called(name) == name \in Range(route)

ExchangePrograms ==
    { RaydiumV4ProgramID, RaydiumV5ProgramID, RaydiumCpSwapProgramID,
      RaydiumUnknownProgramID1, RaydiumLaunchpadV1ProgramID }

GenericRaydiumPrograms == ExchangePrograms \ {RaydiumLaunchpadV1ProgramID}

\* the program of the instruction decoded last
InstrProgram ==
    IF idx > 0 /\ instr.programIDIndex < NumKeys THEN KeyAt(instr.programIDIndex)
    ELSE "none"

(* -------------------------------- C1 ---------------------------------- *)

\* C1: after any number of decoded instructions, failed ones included, the
\* result has as many TradeBuys as SwapBuys and as many TradeSells as
\* SwapSells, so ValidateTransaction reports no count mismatch.
C1_BuySellCountsMatch ==
    /\ Len(result.TradeBuys) = Len(result.SwapBuys)
    /\ Len(result.TradeSells) = Len(result.SwapSells)

C1_Witness ==
    /\ status = "returned"
    /\ idx = 2
    /\ err # "nil"
    /\ Len(result.SwapBuys) + Len(result.SwapSells) = 1

(* -------------------------------- C2 ---------------------------------- *)

\* C2: decoding one instruction appends zero or one event in total to the
\* Create, Trade and Migrate sequences, and what was there before stays.
C2_AtMostOneEventPerInstruction ==
    [][ /\ EventCount(result') - EventCount(result) \in {0, 1}
        /\ Len(result'.Create) >= Len(result.Create)
        /\ Len(result'.Trade) >= Len(result.Trade)
        /\ Len(result'.Migrate) >= Len(result.Migrate) ]_vars

C2_Witness ==
    /\ Called("parseGenericLaunchpadInstruction")
    /\ Called("parseBuyInstructionStandard")
    /\ idx = 2
    /\ EventCount(result) = 2

(* -------------------------------- C3 ---------------------------------- *)

C4_SwapScenarioDecoded ==
    ( /\ idx = 1
      /\ InstrProgram \in ExchangePrograms
      /\ Len(instr.accounts) >= 6
      /\ instr.accounts[1] = IndexOf(solMint)
      /\ instr.data = SwapScenarioData )
    => /\ Len(result.Trade) = 1
       /\ result.Trade[1].AmountIn = LE64(1000000000)
       /\ Len(result.SwapBuys) + Len(result.SwapSells) = 1
       /\ \A i \in 1..Len(result.SwapBuys) :
            result.SwapBuys[i].MinAmountOut = LE64(950000000)
       /\ \A i \in 1..Len(result.SwapSells) :
            result.SwapSells[i].MinAmountOut = LE64(950000000)

(* -------------------------------- C5 ---------------------------------- *)

BaseCurrencies == {solMint, usdcMint, usdtMint}

\* C5 as stated: the kind recorded on every Trade event is "buy" when the
\* input token is a base currency and "sell" when it is not.
C5_KindFollowsInputToken ==
    \A i \in 1..Len(result.Trade) :
       result.Trade[i].TradeType =
          IF result.Trade[i].TokenIn \in BaseCurrencies THEN "buy" ELSE "sell"

\* C5 as amended: a trade decoded by a swap decoder keeps the kind "swap" and
\* its direction is carried by the detail: its index is in TradeBuys with a
\* SwapBuy when the input token is a base currency (SOL, USDC, USDT), in
\* TradeSells with a SwapSell when it is not.  The kinds "buy" and "sell" are
\* recorded only by the buy and sell decoders, from the discriminator.
C5_DirectionOfDecodedTrades ==
    \A i \in 1..Len(result.Trade) :
       LET t == result.Trade[i]
           isBuy == /\ t.InstructionIndex \in Range(result.TradeBuys)
                    /\ Len(result.SwapBuys) = 1 /\ Len(result.SwapSells) = 0
                    /\ result.SwapBuys[1].TokenIn = t.TokenIn
           isSell == /\ t.InstructionIndex \in Range(result.TradeSells)
                     /\ Len(result.SwapSells) = 1 /\ Len(result.SwapBuys) = 0
                     /\ result.SwapSells[1].TokenIn = t.TokenIn
       IN  /\ LastCall \in {"parseSwapInstruction", "parseAsSwapInstruction"}
              => /\ t.TradeType = "swap"
                 /\ t.TokenIn \in BaseCurrencies => isBuy
                 /\ t.TokenIn \notin BaseCurrencies => isSell
           /\ LastCall = "parseBuyInstructionStandard"
              => t.TradeType = "buy" /\ isBuy
           /\ LastCall = "parseSellInstructionStandard"
              => t.TradeType = "sell" /\ isSell
           /\ LastCall \in {"parseSwapInstruction", "parseAsSwapInstruction",
                            "parseBuyInstructionStandard", "parseSellInstructionStandard"}

C5_Witness ==
    /\ status = "returned"
    /\ LastCall = "parseSwapInstruction"
    /\ Len(result.Trade) = 1
    /\ result.Trade[1].TokenIn = usdcMint
    /\ result.Trade[1].TradeType = "swap"
    /\ Len(result.SwapBuys) = 1

(* -------------------------------- C6 ---------------------------------- *)

LaunchpadComplexTable ==
    { LAUNCHPAD_INITIALIZE, LAUNCHPAD_BUY, LAUNCHPAD_SELL, LAUNCHPAD_SWAP,
      LAUNCHPAD_MIGRATE, LAUNCHPAD_REAL_1, LAUNCHPAD_REAL_2, LAUNCHPAD_REAL_3 }

LaunchpadSimpleDecoder(d) ==
    CASE d \in {INSTRUCTION_INITIALIZE, INSTRUCTION_INITIALIZE_POOL, INSTRUCTION_CREATE_POOL} ->
           "parseCreatePoolInstruction"
      [] d = INSTRUCTION_BUY -> "parseBuyInstructionStandard"
      [] d = INSTRUCTION_SELL -> "parseSellInstructionStandard"
      [] d \in {INSTRUCTION_SWAP, INSTRUCTION_SWAP_BASE_IN, INSTRUCTION_SWAP_BASE_OUT} ->
           "parseSwapInstruction"
      [] d = INSTRUCTION_MIGRATE -> "parseMigrateInstruction"
      [] OTHER -> "none"

\* C6: a Launchpad payload of 8 bytes or more whose first 8 bytes are not in
\* the complex-discriminator table is decoded by the decoder that the
\* single-byte table gives for payload[0]: 10 or 9 create, 6 buy, 7 sell,
\* 1, 11 or 12 swap, 4 migrate, whatever the payload length.
C6_SingleByteLookupAfterComplexMiss ==
    ( /\ idx = 1
      /\ InstrProgram = RaydiumLaunchpadV1ProgramID
      /\ Len(instr.data) >= 8
      /\ Uint64(instr.data, 0) \notin LaunchpadComplexTable
      /\ LaunchpadSimpleDecoder(instr.data[1]) # "none" )
    => LastCall = LaunchpadSimpleDecoder(instr.data[1])

(* -------------------------------- C7 ---------------------------------- *)

RequiredAccounts(decoder) ==
    CASE decoder = "parseCreatePoolInstruction" -> 8
      [] decoder \in {"parseSwapInstruction", "parseBuyInstructionStandard",
                      "parseSellInstructionStandard"} -> 6
      [] decoder = "parseMigrateInstruction" -> 4
      [] OTHER -> 0

InsufficientAccountsError(decoder) ==
    CASE decoder = "parseCreatePoolInstruction" -> "insufficient accounts for pool creation"
      [] decoder = "parseSwapInstruction" -> "insufficient accounts for swap"
      [] decoder = "parseBuyInstructionStandard" -> "insufficient accounts for buy"
      [] decoder = "parseSellInstructionStandard" -> "insufficient accounts for sell"
      [] decoder = "parseMigrateInstruction" -> "insufficient accounts for migration"
      [] OTHER -> "nil"

\* C7: when the decoder an instruction resolves to (create, swap, buy, sell
\* or migrate) gets fewer accounts than it requires (8, 6, 6, 6, 4), the
\* decode returns that decoder's insufficient-accounts error and every
\* sequence of the result is left as it was.
C7_BindingFailsClosed ==
    [][ LET decoder == IF route' = << >> THEN "none" ELSE route'[Len(route')]
        IN  ( /\ idx' = idx + 1
              /\ Len(instr'.accounts) < RequiredAccounts(decoder) )
            => /\ err' = InsufficientAccountsError(decoder)
               /\ result' = result
               /\ status' = "running" ]_vars

C7_Witness ==
    /\ idx = 2
    /\ err = "insufficient accounts for pool creation"
    /\ LastCall = "parseCreatePoolInstruction"
    /\ Len(instr.accounts) < 8
    /\ EventCount(result) = 1

(* ----------------------------- C8 .. C10 ------------------------------ *)

RaydiumComplexTable == {COMPLEX_INITIALIZE, COMPLEX_SWAP, COMPLEX_BUY, COMPLEX_SELL}

LaunchpadDecoderTable ==
    { LAUNCHPAD_INITIALIZE, LAUNCHPAD_BUY, LAUNCHPAD_SELL, LAUNCHPAD_SWAP,
      LAUNCHPAD_MIGRATE, LAUNCHPAD_REAL_2 }

\* the 8-byte discriminators that select a decoder in the family of a program
FamilyComplexTable(program) ==
    IF program = RaydiumLaunchpadV1ProgramID THEN LaunchpadDecoderTable
    ELSE RaydiumComplexTable

\* the fallback decoder of either family ran for the instruction decoded last
FallbackRan ==
    Called("parseGenericRaydiumInstruction") \/ Called("parseGenericLaunchpadInstruction")

\* offset of the first field: 8 after an 8-byte discriminator, 1 otherwise
DataStart == IF Len(instr.data) >= 8 THEN 8 ELSE 1

CreateShape == Len(instr.accounts) >= 8 /\ Len(instr.data) >= DataStart + 32

TradeShape == Len(instr.accounts) >= 6 /\ Len(instr.data) >= DataStart + 16

\* an instruction of a recognised family with at least 6 accounts and 16
\* payload bytes whose 8-byte discriminator is not in the family's table
UnresolvedComplex ==
    /\ idx = 1
    /\ InstrProgram \in ExchangePrograms
    /\ Len(instr.accounts) >= 6
    /\ Len(instr.data) >= 16
    /\ Uint64(instr.data, 0) \notin FamilyComplexTable(InstrProgram)

C9_ZeroAmountEmitsNoDetail ==
    ( /\ idx = 1
      /\ FallbackRan
      /\ TradeShape
      /\ Uint64(instr.data, DataStart) = Zero64 )
    => /\ result.SwapBuys = << >>
       /\ result.SwapSells = << >>
       /\ result.TradeBuys = << >>
       /\ result.TradeSells = << >>

\* C10, for a decode that returns: in the fallback decoder an instruction
\* that has neither the create shape nor the trade shape but at least 4
\* accounts is decoded by migration extraction, giving one Migrate event and
\* no Trade event.
C10_MigrationIsThirdRule ==
    ( /\ idx = 1
      /\ status # "panicked"
      /\ FallbackRan
      /\ ~ CreateShape
      /\ ~ TradeShape
      /\ Len(instr.accounts) >= 4 )
    => /\ LastCall = "parseMigrateInstruction"
       /\ Len(result.Migrate) = 1
       /\ Len(result.Trade) = 0

(* -------------------------------- C11 --------------------------------- *)

HeuristicDecoders ==
    { "parseGenericRaydiumInstruction", "parseGenericLaunchpadInstruction",
      "parseAsSwapInstruction", "parseAsCreateOrMigrateInstruction" }

\* the Trade events that instructions resolved through a discriminator table,
\* without any heuristic decoder, put at index 0 of an empty result
ExactTrades ==
    { out.res.Trade[1] :
        out \in { o \in { parseInstruction(ins, 0, EmptyTransaction) : ins \in TxInputs } :
                    /\ Len(o.res.Trade) = 1
                    /\ Range(o.route) \cap HeuristicDecoders = {} } }

\* C11: an event produced by the heuristic fallback decoder carries a
\* low-confidence marker and an exactly decoded one carries none, so the two
\* can be told apart: no Trade event of the fallback decoder is equal, field
\* for field, to a Trade event of an exact decode.
C11_HeuristicEventsAreMarked ==
    ( /\ idx = 1
      /\ FallbackRan
      /\ Len(result.Trade) = 1 )
    => result.Trade[1] \notin ExactTrades

(* -------------------------------- C12 --------------------------------- *)

SlippageValues ==
    { result.SwapBuys[i].Slippage : i \in 1..Len(result.SwapBuys) }
      \cup { result.SwapSells[i].Slippage : i \in 1..Len(result.SwapSells) }

\* C12: every Slippage stored in a SwapBuy or SwapSell lies in [0, 1): its
\* numerator is below its denominator, also when the actual amount is 0.
C12_SlippageBelowOne ==
    \A s \in SlippageValues : Lt64(s.num, s.den)

(* -------------------------------- C13 --------------------------------- *)

ComplexDispatchers ==
    { "parseComplexRaydiumInstruction", "parseComplexLaunchpadInstruction" }

\* C13: for a buy, sell or swap selected by an 8-byte discriminator the
\* amount is payload bytes 8..15 and, for a sell or swap, the bound is bytes
\* 16..23.
C13_ComplexFieldsStartAtEight ==
    ( /\ idx = 1
      /\ Range(route) \cap ComplexDispatchers # {}
      /\ ~ FallbackRan
      /\ LastCall \in {"parseBuyInstructionStandard", "parseSellInstructionStandard",
                       "parseSwapInstruction"}
      /\ Len(instr.data) >= 24
      /\ Len(result.Trade) = 1 )
    => /\ result.Trade[1].AmountIn = Uint64(instr.data, 8)
       /\ \A i \in 1..Len(result.SwapSells) :
            result.SwapSells[i].MinAmountOut = Uint64(instr.data, 16)

(* -------------------------------- C14 --------------------------------- *)

ExactDecoders ==
    { "parseCreatePoolInstruction", "parseSwapInstruction",
      "parseBuyInstructionStandard", "parseSellInstructionStandard",
      "parseMigrateInstruction" }

\* MinAmountOut of every swap detail of the result
StoredBounds ==
    { result.SwapBuys[i].MinAmountOut : i \in 1..Len(result.SwapBuys) }
      \cup { result.SwapSells[i].MinAmountOut : i \in 1..Len(result.SwapSells) }

\* the decode of one instruction by a decoder that got the accounts it
\* requires emits its event without error, and every field whose bytes the
\* payload does not hold has its default: amount 0, bound 0, and the given
\* decimals
ShortPayloadDefaults(decimals) ==
    LET n == Len(instr.data)
    IN  ( /\ idx = 1
          /\ status # "panicked"
          /\ LastCall \in ExactDecoders
          /\ Len(instr.accounts) >= RequiredAccounts(LastCall) )
        => /\ err = "nil"
           /\ EventCount(result) = 1
           /\ LastCall = "parseCreatePoolInstruction"
                => /\ Len(result.Create) = 1
                   /\ n < 17 => result.Create[1].Amount = Zero64
                   /\ n < 10 => result.Create[1].TokenDecimals = decimals
           /\ LastCall = "parseSwapInstruction"
                => /\ Len(result.Trade) = 1
                   /\ n < 9 => result.Trade[1].AmountIn = Zero64
                   /\ n < 17 => StoredBounds = {Zero64}
           /\ LastCall \in {"parseBuyInstructionStandard", "parseSellInstructionStandard"}
                => /\ Len(result.Trade) = 1
                   /\ n < 17 => result.Trade[1].AmountIn = Zero64
                   /\ n < 17 => StoredBounds = {Zero64}
           /\ LastCall = "parseMigrateInstruction"
                => /\ Len(result.Migrate) = 1
                   /\ n < 9 => result.Migrate[1].Amount = Zero64

\* C14 as stated: a field whose bytes are not all in the payload is left at
\* its zero value (amount 0, bound 0, decimals 0) and the event is emitted.
C14_ShortPayloadLeavesZero == ShortPayloadDefaults(0)

\* C14 as amended: once a decoder is selected and has the accounts it
\* requires, a short payload never makes it fail and the event is emitted; an
\* amount or bound whose bytes are missing is 0, and the decimals of a create
\* whose payload has fewer than 10 bytes are 9, the default, not 0.
C14_ShortPayloadLeavesDefault == ShortPayloadDefaults(9)

C14_Witness ==
    /\ status = "returned"
    /\ idx = 1
    /\ LastCall = "parseCreatePoolInstruction"
    /\ Len(instr.data) < 10
    /\ Len(result.Create) = 1
    /\ result.Create[1].TokenDecimals = 9
    /\ result.Create[1].Amount = Zero64

(* -------------------------------- C15 --------------------------------- *)

AmountFields ==
    { result.Trade[i].AmountOut : i \in 1..Len(result.Trade) }
      \cup { result.SwapBuys[i].AmountOut : i \in 1..Len(result.SwapBuys) }
      \cup { result.SwapSells[i].AmountOut : i \in 1..Len(result.SwapSells) }

\* 2^64 - (pre - post): what post - pre is modulo 2^64 when post < pre
WrappedDifference(pre, post) == Sub64(Zero64, Sub64(pre, post))

\* C15: no amount of an emitted event is a difference that wrapped modulo
\* 2^64: when the post balance is below the pre balance, no output amount is
\* the wrapped difference of the two.
C15_NoWrappedAmount ==
    ( /\ tx.meta.present
      /\ Len(tx.meta.PreBalances) > 1
      /\ Len(tx.meta.PostBalances) > 1
      /\ Lt64(tx.meta.PostBalances[2], tx.meta.PreBalances[2]) )
    => WrappedDifference(tx.meta.PreBalances[2], tx.meta.PostBalances[2])
          \notin AmountFields

(* -------------------------------- C16 --------------------------------- *)

\* the result of decoding the top-level instruction decoded last on its own
DecodedAlone ==
    IF tx.format = "standard"
    THEN parseInstruction(instr, idx - 1, EmptyTransaction).res
    ELSE parseGeyserInstructionWrapper(GeyserInstruction(instr), idx - 1,
                                       EmptyTransaction, tx.meta).res

NoInnerDecoded == tx.g = 1 /\ tx.j = 0

\* C16: an instruction whose decode returns an error does not abort the
\* transaction.  After it the loop goes on: the next top-level or inner
\* instruction can be decoded, and when none is left the result is returned.
\* The events of every top-level instruction are in the result whatever the
\* instructions before it returned.
C16_ErrorDoesNotAbort ==
    /\ (err # "nil" /\ status # "panicked")
         => /\ status \in {"running", "returned"}
            /\ (status = "running" /\ tx.format = "standard" /\ idx < MaxInstr)
                 => ENABLED ParseStandardInstruction
            /\ (status = "running" /\ tx.format = "geyser" /\ NoInnerDecoded
                   /\ idx < MaxInstr)
                 => ENABLED ParseGeyserInstruction
            /\ (status = "running" /\ tx.format = "geyser" /\ InnerParentsValid
                   /\ ~ InnerDone)
                 => ENABLED ParseGeyserInnerInstruction
            /\ (status = "running" /\ InnerParentsValid
                   /\ (tx.format = "geyser" => InnerDone))
                 => ENABLED ReturnTransaction
    /\ (idx > 0 /\ status # "panicked" /\ NoInnerDecoded)
         => /\ Range(DecodedAlone.Trade) \subseteq Range(result.Trade)
            /\ Range(DecodedAlone.Create) \subseteq Range(result.Create)
            /\ Range(DecodedAlone.Migrate) \subseteq Range(result.Migrate)

\* a returned standard-format result whose only event is the Trade of
\* instruction 1: instruction 0 failed and instruction 1 was decoded
C16_Witness ==
    /\ status = "returned"
    /\ tx.format = "standard"
    /\ idx = 2
    /\ EventCount(result) = 1
    /\ Len(result.Trade) = 1
    /\ result.Trade[1].InstructionIndex = 1

(* -------------------------------- C17 --------------------------------- *)

\* C17: decoding an instruction of a recognised program never crashes: it
\* ends with a result or a returned error, also when an account index is not
\* below the number of account keys.
C17_DecodeNeverPanics ==
    (idx = 1 /\ InstrProgram \in ExchangePrograms) => status # "panicked"

(* -------------------------------- C18 --------------------------------- *)

\* the programs that parseInstruction has a case for
ProgramRegistry ==
    { RaydiumV4ProgramID, RaydiumV5ProgramID, RaydiumStakingProgramID,
      RaydiumLiquidityProgramID, RaydiumLaunchpadV1ProgramID,
      RaydiumCpSwapProgramID, RaydiumUnknownProgramID1,
      RaydiumUnknownProgramID2, TokenProgramID }

\* C18: the decode of an instruction whose program is not in the registry
\* returns no error and leaves every sequence of the result as it was.
C18_UnknownProgramSkipped ==
    [][ ( /\ idx' = idx + 1
          /\ instr'.programIDIndex < NumKeys
          /\ KeyAt(instr'.programIDIndex) \notin ProgramRegistry )
        => /\ err' = "nil"
           /\ result' = result
           /\ status' = "running" ]_vars

C18_Witness ==
    /\ idx = 2
    /\ InstrProgram = "OtherProgram"
    /\ err = "nil"
    /\ status = "running"
    /\ EventCount(result) = 1

(* -------------------------------- C19 --------------------------------- *)

\* C19: the InstructionIndex values of the Trade sequence follow the
\* processing order: an event decoded earlier never has a larger
\* InstructionIndex than one decoded later.
C19_TradeIndexFollowsOrder ==
    \A i \in 1..Len(result.Trade) : \A k \in 1..Len(result.Trade) :
        i < k => result.Trade[i].InstructionIndex <= result.Trade[k].InstructionIndex

(* -------------------------------- C20 --------------------------------- *)

\* the number of events an instruction yields when the decoder of top-level
\* instructions of the transaction's format decodes it on its own
EventsAlone(ins) ==
    IF tx.format = "standard"
    THEN EventCount(parseInstruction(ins, 0, EmptyTransaction).res)
    ELSE EventCount(parseGeyserInstructionWrapper(GeyserInstruction(ins), 0,
                                                  EmptyTransaction, tx.meta).res)

RECURSIVE SumEvents(_)
SumEvents(instructions) ==
    IF instructions = << >> THEN 0
    ELSE EventsAlone(Head(instructions)) + SumEvents(Tail(instructions))

RECURSIVE InnerEventCount(_)
InnerEventCount(groups) ==
    IF groups = << >> THEN 0
    ELSE SumEvents(Head(groups).Instructions) + InnerEventCount(Tail(groups))

\* C20: every inner instruction of a recognised program is decoded like a
\* top-level one and contributes its event, on either format: a returned
\* result has at least the events of the transaction's inner instructions.
C20_InnerInstructionsDecoded ==
    status = "returned" => EventCount(result) >= InnerEventCount(tx.inner)

(* -------------------------------- C21 --------------------------------- *)

\* the instruction was resolved to the given decoder and has the number of
\* accounts that decoder requires
RecognisedBy(decoder, rt, ins) ==
    /\ rt # << >>
    /\ rt[Len(rt)] = decoder
    /\ Len(ins.accounts) >= RequiredAccounts(decoder)

\* C21: every recognised event is captured as its own object: the decode of
\* an instruction resolved to the create decoder with enough accounts adds
\* exactly one Create entry, one resolved to the buy decoder adds exactly one
\* Trade and one TradeBuys entry, one resolved to the sell decoder exactly one
\* Trade and one TradeSells entry, so that a create, a buy and a sell give one
\* Create and two Trades, and n buys and m sells give n TradeBuys and m
\* TradeSells.
C21_EveryEventCaptured ==
    [][ idx' = idx + 1 =>
          /\ RecognisedBy("parseCreatePoolInstruction", route', instr')
               => /\ Len(result'.Create) = Len(result.Create) + 1
                  /\ Len(result'.Trade) = Len(result.Trade)
          /\ RecognisedBy("parseBuyInstructionStandard", route', instr')
               => /\ Len(result'.Trade) = Len(result.Trade) + 1
                  /\ Len(result'.TradeBuys) = Len(result.TradeBuys) + 1
                  /\ Len(result'.TradeSells) = Len(result.TradeSells)
          /\ RecognisedBy("parseSellInstructionStandard", route', instr')
               => /\ Len(result'.Trade) = Len(result.Trade) + 1
                  /\ Len(result'.TradeSells) = Len(result.TradeSells) + 1
                  /\ Len(result'.TradeBuys) = Len(result.TradeBuys) ]_vars

(* -------------------------------- C22 --------------------------------- *)

\* C22: the decode of a Launchpad instruction resolved to
\* parseBuyInstructionStandard, with the accounts it requires, appends one
\* Trade entry and no SwapBuy entry, so the SwapBuys sequence of a Launchpad
\* create-plus-buy transaction stays empty.
C22_LaunchpadBuyAddsNoSwapBuy ==
    [][ ( /\ idx' = idx + 1
          /\ instr'.programIDIndex = IndexOf(RaydiumLaunchpadV1ProgramID)
          /\ RecognisedBy("parseBuyInstructionStandard", route', instr') )
        => /\ Len(result'.Trade) = Len(result.Trade) + 1
           /\ result'.SwapBuys = result.SwapBuys ]_vars

(* -------------------------------- C23 --------------------------------- *)

\* the function parseInstruction hands an instruction of the program to
DecoderFamily == IF Len(route) >= 2 THEN route[2] ELSE "none"

\* C23: the program 6EF8rrecthR5Dkzon8Nwu78hRvfCKubJ14M5uBEwF6P is routed to
\* the Launchpad decoder and LanMV9sAd7wArD4vJFi2qDdfnVhFxYSUg6eADduJ3uj to
\* the generic Raydium decoder.
C23_ProgramRouting ==
    idx = 1 =>
      /\ InstrProgram = RaydiumLaunchpadV1DocumentedID
           => DecoderFamily = "parseRaydiumLaunchpadInstructionStandard"
      /\ InstrProgram = RaydiumUnknownProgramID2
           => DecoderFamily = "parseRaydiumInstruction"

(* ------------------------ instruction builders ------------------------ *)

\* a builder keeps its program, the public keys its setters store (in the
\* order Build lists them), its amount and its bound; calls is the set of
\* setters called on it so far
NewSwapInstruction ==
    [ kind |-> "swap", programID |-> RaydiumV4ProgramID,
      keys |-> [ k \in 1..17 |-> ZeroKey ],
      amount |-> Zero64, bound |-> Zero64, calls |-> {} ]

NewBuyInstruction ==
    [ kind |-> "buy", programID |-> RaydiumLaunchpadV1ProgramID,
      keys |-> [ k \in 1..8 |-> ZeroKey ],
      amount |-> Zero64, bound |-> Zero64, calls |-> {} ]

NewSellInstruction ==
    [ kind |-> "sell", programID |-> RaydiumLaunchpadV1ProgramID,
      keys |-> [ k \in 1..8 |-> ZeroKey ],
      amount |-> Zero64, bound |-> Zero64, calls |-> {} ]

NewMigrateInstruction ==
    [ kind |-> "migrate", programID |-> RaydiumV4ProgramID,
      keys |-> [ k \in 1..4 |-> ZeroKey ],
      amount |-> Zero64, bound |-> Zero64, calls |-> {} ]

\* make([]byte, n)
MakeBytes(n) == [ k \in 1..n |-> 0 ]

\* binary.LittleEndian.PutUint64(data[off:off+8], v), written most
\* significant byte first
PutUint64_BigEndian(data, off, v) ==
    [ k \in 1..Len(data) |->
        IF k > off /\ k <= off + 8 THEN v[9 - (k - off)] ELSE data[k] ]

\* binary.LittleEndian.PutUint64(data[off:off+8], v)
PutUint64(data, off, v) ==
    [ k \in 1..Len(data) |->
        IF k > off /\ k <= off + 8 THEN v[k - off] ELSE data[k] ]

\* solana.NewInstruction(programID, accounts, data), nil
NewInstruction(programID, accounts, data) ==
    [ instruction |-> [ programID |-> programID, accounts |-> accounts, data |-> data ],
      err |-> "nil" ]

SwapInstructionBuild(s) ==
    LET data0 == [ MakeBytes(17) EXCEPT ![1] = INSTRUCTION_SWAP ]
        data1 == PutUint64(data0, 1, s.amount)
        data == PutUint64(data1, 9, s.bound)
    IN  NewInstruction(s.programID, s.keys \o <<TokenProgramID>>, data)

BuyInstructionBuild(b) ==
    LET data0 == [ MakeBytes(17) EXCEPT ![1] = INSTRUCTION_BUY ]
        data1 == PutUint64(data0, 1, b.amount)
        data == PutUint64(data1, 9, b.bound)
    IN  NewInstruction(b.programID, b.keys \o <<TokenProgramID, SystemProgramID>>, data)

SellInstructionBuild(s) ==
    LET data0 == [ MakeBytes(17) EXCEPT ![1] = INSTRUCTION_SELL ]
        data1 == PutUint64(data0, 1, s.amount)
        data == PutUint64(data1, 9, s.bound)
    IN  NewInstruction(s.programID, s.keys \o <<TokenProgramID, SystemProgramID>>, data)

MigrateInstructionBuild(m) ==
    LET data0 == [ MakeBytes(9) EXCEPT ![1] = INSTRUCTION_MIGRATE ]
        data == PutUint64(data0, 1, m.amount)
    IN  NewInstruction(m.programID, m.keys \o <<TokenProgramID>>, data)

Build(b) ==
    CASE b.kind = "swap" -> SwapInstructionBuild(b)
      [] b.kind = "buy" -> BuyInstructionBuild(b)
      [] b.kind = "sell" -> SellInstructionBuild(b)
      [] b.kind = "migrate" -> MigrateInstructionBuild(b)

\* the instruction as it stands in a message whose account keys are
\* AccountKeys: the program and the accounts become indexes into the table
CompiledInstruction(ins) ==
    [ programIDIndex |-> IndexOf(ins.programID),
      accounts |-> [ k \in 1..Len(ins.accounts) |-> IndexOf(ins.accounts[k]) ],
      data |-> ins.data ]

\* the keys a caller stores with the account setters: the first one, then
\* token, pool, signer, system and token program in turn
UserKeys(n, first) ==
    [ k \in 1..n |-> IF k = 1 THEN first ELSE KeyAt(AccountPattern(k)) ]

ProgramChoices == { RaydiumV4ProgramID, RaydiumLaunchpadV1ProgramID, RaydiumCpSwapProgramID }

AmountChoices ==
    { Zero64, LE64(1), LE64(1000000), LE64(1000000000),
      <<1, 2, 3, 4, 5, 6, 7, 8>>, <<255, 255, 255, 255, 255, 255, 255, 255>> }

BoundChoices ==
    { Zero64, LE64(950000000), <<9, 10, 11, 12, 13, 14, 15, 16>>,
      <<255, 255, 255, 255, 255, 255, 255, 255>> }

InitBuild ==
    /\ result = EmptyTransaction
    /\ idx = 0
    /\ instr = NoInstr
    /\ err = "nil"
    /\ route = << >>
    /\ status = "running"
    /\ tx = StandardTx
    /\ builder = NoBuilder
    /\ call = NoCall

\* NewSwapInstruction(), NewBuyInstruction(), NewSellInstruction() or
\* NewMigrateInstruction()
NewBuilder ==
    /\ builder = NoBuilder
    /\ builder' \in { NewSwapInstruction, NewBuyInstruction,
                      NewSellInstruction, NewMigrateInstruction }
    /\ UNCHANGED <<result, idx, instr, err, route, status, tx, call>>

SetProgramID ==
    /\ builder.kind # "none"
    /\ call = NoCall
    /\ \E programID \in ProgramChoices :
         builder' = [ builder EXCEPT !.programID = programID,
                                     !.calls = @ \cup {"SetProgramID"} ]
    /\ UNCHANGED <<result, idx, instr, err, route, status, tx, call>>

\* the setters of the account fields, called one after the other
SetAccounts ==
    /\ builder.kind # "none"
    /\ call = NoCall
    /\ \E first \in {"TraderWallet", solMint} :
         builder' = [ builder EXCEPT !.keys = UserKeys(Len(@), first),
                                     !.calls = @ \cup {"SetAccounts"} ]
    /\ UNCHANGED <<result, idx, instr, err, route, status, tx, call>>

\* SetAmountIn of the swap builder, SetAmount of the others
SetAmount ==
    /\ builder.kind # "none"
    /\ call = NoCall
    /\ \E amount \in AmountChoices :
         builder' = [ builder EXCEPT !.amount = amount,
                                     !.calls = @ \cup {"SetAmount"} ]
    /\ UNCHANGED <<result, idx, instr, err, route, status, tx, call>>

\* SetMinimumAmountOut, SetMaxSolCost or SetMinSolReceived
SetBound ==
    /\ builder.kind \in {"swap", "buy", "sell"}
    /\ call = NoCall
    /\ \E bound \in BoundChoices :
         builder' = [ builder EXCEPT !.bound = bound,
                                     !.calls = @ \cup {"SetBound"} ]
    /\ UNCHANGED <<result, idx, instr, err, route, status, tx, call>>

CallBuild ==
    /\ builder.kind # "none"
    /\ call = NoCall
    /\ call' = [ fn |-> "Build", out |-> Build(builder) ]
    /\ UNCHANGED <<result, idx, instr, err, route, status, tx, builder>>

\* parseInstruction on the built instruction, as instruction 0 of a message
\* that holds its keys
ParseBuilt ==
    /\ call # NoCall
    /\ call.fn = "Build"
    /\ status = "running"
    /\ idx = 0
    /\ \A k \in 1..Len(call.out.instruction.accounts) :
         call.out.instruction.accounts[k] \in { AccountKeys[i] : i \in 1..NumKeys }
    /\ Decode(CompiledInstruction(call.out.instruction))

NextBuild ==
    \/ NewBuilder
    \/ SetProgramID
    \/ SetAccounts
    \/ SetAmount
    \/ SetBound
    \/ CallBuild
    \/ ParseBuilt

SpecBuild == InitBuild /\ [][NextBuild]_vars

(* -------------------------------- C24 --------------------------------- *)

\* the program a builder is constructed with
DefaultProgramID(kind) ==
    IF kind \in {"swap", "migrate"} THEN RaydiumV4ProgramID
    ELSE RaydiumLaunchpadV1ProgramID

\* C24: Build returns no error; the swap, buy and sell builders return a
\* 17-byte payload with the discriminator 1, 6 or 7, the amount in bytes 1..8
\* and the bound in bytes 9..16, little-endian, with 18, 10 and 10 accounts;
\* the migrate builder returns a 9-byte payload with the discriminator 4 and
\* the amount, with 5 accounts; the program is the builder's default unless
\* SetProgramID was called.
C24_BuildersEncode ==
    (call # NoCall /\ call.fn = "Build") =>
      LET ins == call.out.instruction
          data == ins.data
      IN  /\ call.out.err = "nil"
          /\ builder.kind \in {"swap", "buy", "sell"}
               => /\ Len(data) = 17
                  /\ data[1] = ( CASE builder.kind = "swap" -> 1
                                   [] builder.kind = "buy" -> 6
                                   [] builder.kind = "sell" -> 7 )
                  /\ SubSeq(data, 2, 9) = builder.amount
                  /\ SubSeq(data, 10, 17) = builder.bound
                  /\ Len(ins.accounts) = IF builder.kind = "swap" THEN 18 ELSE 10
          /\ builder.kind = "migrate"
               => /\ Len(data) = 9
                  /\ data[1] = 4
                  /\ SubSeq(data, 2, 9) = builder.amount
                  /\ Len(ins.accounts) = 5
          /\ "SetProgramID" \notin builder.calls
               => ins.programID = DefaultProgramID(builder.kind)
          /\ "SetProgramID" \in builder.calls
               => ins.programID = builder.programID

C24_Witness ==
    /\ call # NoCall
    /\ call.fn = "Build"
    /\ builder.kind = "buy"
    /\ builder.amount = <<1, 2, 3, 4, 5, 6, 7, 8>>
    /\ builder.bound = <<9, 10, 11, 12, 13, 14, 15, 16>>
    /\ builder.calls = {"SetAccounts", "SetAmount", "SetBound"}
    /\ call.out.instruction.data = <<6, 1, 2, 3, 4, 5, 6, 7, 8, 9, 10, 11, 12, 13, 14, 15, 16>>

(* -------------------------------- C25 --------------------------------- *)

\* the entries of a sequence after its first n
Suffix(seq, n) == SubSeq(seq, n + 1, Len(seq))

\* what a decode appended to each sequence of the result
EventsAdded(before, after) ==
    [ f \in DOMAIN after |-> Suffix(after[f], Len(before[f])) ]

\* C25: decoding is deterministic and independent of what was decoded
\* before: the decode of an instruction at an index leaves what the result
\* held in place, and what it appends, together with its error and the
\* decoders it went through, is what the decode of the same instruction at
\* the same index appends to an empty result.
C25_DecodeIndependentOfHistory ==
    [][ idx' = idx + 1 =>
          LET alone == parseInstruction(instr', idx, EmptyTransaction)
          IN  /\ \A f \in DOMAIN result :
                   SubSeq(result'[f], 1, Len(result[f])) = result[f]
              /\ EventsAdded(result, result') = EventsAdded(EmptyTransaction, alone.res)
              /\ err' = alone.err
              /\ route' = alone.route
              /\ (status' = "panicked") = alone.panicked ]_vars

C25_Witness ==
    /\ idx = 2
    /\ status = "running"
    /\ Len(result.Trade) = 2
    /\ Len(result.SwapBuys) = 2
    /\ result.Trade[2] = [ result.Trade[1] EXCEPT !.InstructionIndex = 1 ]
    /\ result.SwapBuys[2] = result.SwapBuys[1]

(* -------------------------------- C26 --------------------------------- *)

\* C26: the instruction built by the buy (sell) builder with its default
\* program and amount a, decoded by parseInstruction, yields exactly one
\* Trade, of type "buy" ("sell") and with AmountIn = a, and exactly one
\* TradeBuys (TradeSells) entry.
C26_BuiltTradeRoundTrip ==
    ( /\ call # NoCall
      /\ call.fn = "Build"
      /\ idx = 1
      /\ builder.kind \in {"buy", "sell"}
      /\ "SetProgramID" \notin builder.calls )
    => /\ status = "running"
       /\ err = "nil"
       /\ Len(result.Trade) = 1
       /\ result.Trade[1].TradeType = builder.kind
       /\ result.Trade[1].AmountIn = builder.amount
       /\ Len(result.TradeBuys) = IF builder.kind = "buy" THEN 1 ELSE 0
       /\ Len(result.TradeSells) = IF builder.kind = "sell" THEN 1 ELSE 0

(* -------------------------------- C27 --------------------------------- *)

\* no two bytes of the payload have the same value, so that two fields with
\* the same value were read from the same byte
DistinctBytes(data) ==
    \A i \in 1..Len(data) : \A j \in 1..Len(data) : i # j => data[i] # data[j]

\* C27: in a Create event decoded from a payload of at least 17 bytes the
\* byte that supplies TokenDecimals is not the low byte of Amount.
C27_DecimalsApartFromAmount ==
    ( /\ idx = 1
      /\ status = "running"
      /\ LastCall = "parseCreatePoolInstruction"
      /\ Len(result.Create) = 1
      /\ Len(instr.data) >= 17
      /\ DistinctBytes(instr.data) )
    => result.Create[1].TokenDecimals # result.Create[1].Amount[1]

(* -------------------------------- C28 --------------------------------- *)

\* C28: in a decode of the Geyser format no two Trade events have the same
\* InstructionIndex, the events of inner instructions included, so every
\* TradeBuys or TradeSells entry names one Trade event.
C28_GeyserIndexesDistinct ==
    tx.format = "geyser" =>
      /\ \A i \in 1..Len(result.Trade) : \A k \in 1..Len(result.Trade) :
           i # k => result.Trade[i].InstructionIndex # result.Trade[k].InstructionIndex
      /\ \A n \in Range(result.TradeBuys) \cup Range(result.TradeSells) :
           Cardinality({ i \in 1..Len(result.Trade) :
                           result.Trade[i].InstructionIndex = n }) = 1

(* ------------------------------ utilities ----------------------------- *)

HexDigits == <<"0", "1", "2", "3", "4", "5", "6", "7", "8", "9",
               "a", "b", "c", "d", "e", "f">>

\* hex.EncodeToString(data): two digits for each byte, high nibble first
EncodeToString(data) ==
    [ k \in 1..(2 * Len(data)) |->
        LET byte == data[(k + 1) \div 2]
        IN  IF k % 2 = 1 THEN HexDigits[(byte \div 16) + 1]
            ELSE HexDigits[(byte % 16) + 1] ]

\* outcome of a library call: the value it returns, or a runtime panic
Returned(value) == [ panicked |-> FALSE, value |-> value ]

Panicked(message) == [ panicked |-> TRUE, value |-> message ]

\* the map ExtractInstructionData returns is a function from its keys; the
\* amount is read from data[1] .. data[8] once len(data) >= 8
ExtractInstructionData(data) ==
    IF Len(data) = 0 THEN Returned(<< >>)
    ELSE LET fields == [ discriminator |-> data[1],
                         data_hex |-> EncodeToString(data),
                         data_length |-> Len(data) ]
         IN  IF Len(data) >= 8
             THEN IF Len(data) < 9
                  THEN Panicked("index out of range [8] with length 8")
                  ELSE Returned(fields @@ ("potential_amount" :> Uint64(data, 1)))
             ELSE Returned(fields)

\* the element of a one-element set
Only(S) == CHOOSE x \in S : TRUE

\* v * 10 on uint64, byte by byte with carry: the product modulo 2^64 and
\* the carry out of the most significant byte
RECURSIVE MulTenFrom(_, _, _, _)
MulTenFrom(v, k, carry, bytes) ==
    IF k > 8 THEN [ value |-> bytes, carry |-> carry ]
    ELSE Only({ MulTenFrom(v, k + 1, s.carry, s.bytes) :
                  s \in { [ carry |-> (v[k] * 10 + carry) \div 256,
                            bytes |-> Append(bytes, (v[k] * 10 + carry) % 256) ] } })

MulTen(v) == MulTenFrom(v, 1, 0, << >>)

\* one round of the loop divisor *= 10; exact tells whether no round so
\* far lost a carry
MulTenStep(s) ==
    Only({ [ value |-> m.value, exact |-> s.exact /\ m.carry = 0 ] :
             m \in { MulTen(s.value) } })

\* n rounds of the loop, n at most 16
RECURSIVE MulTenRounds(_, _)
MulTenRounds(s, n) ==
    IF n = 0 THEN s
    ELSE Only({ MulTenRounds(t, n - 1) : t \in { MulTenStep(s) } })

\* n rounds of the loop, 16 at a time
RECURSIVE PowerOfTenFrom(_, _)
PowerOfTenFrom(s, n) ==
    IF n <= 16 THEN MulTenRounds(s, n)
    ELSE Only({ PowerOfTenFrom(t, n - 16) : t \in { MulTenRounds(s, 16) } })

PowerOfTen(n) == PowerOfTenFrom([ value |-> LE64(1), exact |-> TRUE ], n)

\* bit i (0 the least significant) of a uint64
Bit(v, i) == (v[(i \div 8) + 1] \div (2 ^ (i % 8))) % 2

\* (v << 1) | b modulo 2^64
ShiftIn(v, b) ==
    [ k \in 1..8 |-> (v[k] * 2 + (IF k = 1 THEN b ELSE v[k - 1] \div 128)) % 256 ]

\* one step of the long division: the remainder takes the next bit of n and
\* gives up d when it holds it
DivModStep(n, d, i, q, r) ==
    Only({ IF r[8] >= 128 \/ ~ Lt64(shifted, d)
           THEN [ q |-> [ q EXCEPT ![(i \div 8) + 1] = @ + (2 ^ (i % 8)) ],
                  r |-> Sub64(shifted, d) ]
           ELSE [ q |-> q, r |-> shifted ] :
             shifted \in { ShiftIn(r, Bit(n, i)) } })

\* the steps of the long division for bits i down to low
RECURSIVE DivModBits(_, _, _, _, _)
DivModBits(n, d, i, low, s) ==
    IF i < low THEN s
    ELSE Only({ DivModBits(n, d, i - 1, low, t) :
                  t \in { DivModStep(n, d, i, s.q, s.r) } })

\* n / d and n % d on uint64 for d # 0, by binary long division, from
\* byte k of n down to its first
RECURSIVE DivMod64From(_, _, _, _)
DivMod64From(n, d, k, s) ==
    IF k = 0 THEN s
    ELSE Only({ DivMod64From(n, d, k - 1, t) :
                  t \in { DivModBits(n, d, 8 * k - 1, 8 * (k - 1), s) } })

DivMod64(n, d) == DivMod64From(n, d, 8, [ q |-> Zero64, r |-> Zero64 ])

\* v / 10 and v % 10 by short division from the most significant byte; q
\* holds the quotient bytes found so far, most significant first
RECURSIVE DivTenFrom(_, _, _, _)
DivTenFrom(v, k, rem, q) ==
    IF k = 0 THEN [ q |-> q, r |-> rem ]
    ELSE Only({ DivTenFrom(v, k - 1, s.rem, s.q) :
                  s \in { [ rem |-> (rem * 256 + v[k]) % 10,
                            q |-> <<(rem * 256 + v[k]) \div 10>> \o q ] } })

DivTen(v) == DivTenFrom(v, 8, 0, << >>)

\* fmt.Sprintf("%d", v): the decimal digits of v; digits holds the ones
\* to the right of those still to come
RECURSIVE FormatUintFrom(_, _)
FormatUintFrom(v, digits) ==
    Only({ IF d.q = Zero64 THEN <<HexDigits[d.r + 1]>> \o digits
           ELSE FormatUintFrom(d.q, <<HexDigits[d.r + 1]>> \o digits) :
             d \in { DivTen(v) } })

FormatUint(v) == FormatUintFrom(v, << >>)

\* the verb %0Nd: the digits padded with zeros on the left to width N
ZeroPadded(v, width) ==
    Only({ IF Len(digits) >= width THEN digits
           ELSE [ k \in 1..(width - Len(digits)) |-> "0" ] \o digits :
             digits \in { FormatUint(v) } })

\* the divisor, the two parts and the text of FormatTokenAmount; dividing by
\* a divisor of 0 is a runtime panic
FormatTokenAmount(amount, decimals) ==
    IF decimals = 0
    THEN Returned([ divisor |-> LE64(1), integerPart |-> amount,
                    fractionalPart |-> Zero64, text |-> FormatUint(amount) ])
    ELSE Only({ IF divisor = Zero64
                THEN Panicked("integer divide by zero")
                ELSE Only({ Returned([ divisor |-> divisor,
                                       integerPart |-> parts.q,
                                       fractionalPart |-> parts.r,
                                       text |-> IF parts.r = Zero64
                                                THEN FormatUint(parts.q)
                                                ELSE FormatUint(parts.q) \o <<".">>
                                                       \o ZeroPadded(parts.r, decimals) ]) :
                              parts \in { DivMod64(amount, divisor) } }) :
                  divisor \in { PowerOfTen(decimals).value } })

\* byte slices of every length up to MaxLen
ByteSlices ==
    { Payload(<<d>>, fill, n) : d \in {0, 1, 6}, fill \in {"zero", "seq"}, n \in 0..MaxLen }

TokenAmounts ==
    { Zero64, LE64(1), LE64(1000000000), LE64(1500000000),
      <<1, 2, 3, 4, 5, 6, 7, 8>>, <<255, 255, 255, 255, 255, 255, 255, 255>> }

\* every uint8
DecimalsValues == 0..255

InitUtil ==
    /\ result = EmptyTransaction
    /\ idx = 0
    /\ instr = NoInstr
    /\ err = "nil"
    /\ route = << >>
    /\ status = "running"
    /\ tx = StandardTx
    /\ builder = NoBuilder
    /\ call = NoCall

CallExtractInstructionData ==
    /\ call = NoCall
    /\ \E data \in ByteSlices :
         call' = [ fn |-> "ExtractInstructionData", data |-> data,
                   out |-> ExtractInstructionData(data) ]
    /\ UNCHANGED <<result, idx, instr, err, route, status, tx, builder>>

CallFormatTokenAmount ==
    /\ call = NoCall
    /\ \E amount \in TokenAmounts : \E decimals \in DecimalsValues :
         call' = [ fn |-> "FormatTokenAmount", amount |-> amount,
                   decimals |-> decimals,
                   out |-> FormatTokenAmount(amount, decimals) ]
    /\ UNCHANGED <<result, idx, instr, err, route, status, tx, builder>>

NextUtil ==
    \/ CallExtractInstructionData
    \/ CallFormatTokenAmount

SpecUtil == InitUtil /\ [][NextUtil]_vars

(* -------------------------------- C29 --------------------------------- *)

\* C29: for a byte slice of any length ExtractInstructionData returns a map
\* without reading past the end of the slice, and when the map holds
\* potential_amount the bytes 1..8 it was read from are in the slice.
C29_ExtractReadsInsideSlice ==
    (call # NoCall /\ call.fn = "ExtractInstructionData") =>
      /\ ~ call.out.panicked
      /\ "potential_amount" \in DOMAIN call.out.value => Len(call.data) >= 9

(* -------------------------------- C30 --------------------------------- *)

\* the sum over i of a[i] * b[k + 1 - i]: the weight of byte k of a product
RECURSIVE ConvolveFrom(_, _, _, _)
ConvolveFrom(a, b, k, i) ==
    IF i > 8 THEN 0
    ELSE (IF k + 1 - i \in 1..8 THEN a[i] * b[k + 1 - i] ELSE 0)
           + ConvolveFrom(a, b, k, i + 1)

\* a * b + c of three uint64 as the 16 little-endian bytes of the exact value
RECURSIVE MulAddFrom(_, _, _, _, _, _)
MulAddFrom(a, b, c, k, carry, bytes) ==
    IF k > 16 THEN bytes
    ELSE Only({ MulAddFrom(a, b, c, k + 1, s.carry, s.bytes) :
                  s \in { Only({ [ carry |-> t \div 256, bytes |-> Append(bytes, t % 256) ] :
                                   t \in { ConvolveFrom(a, b, k, 1)
                                             + (IF k <= 8 THEN c[k] ELSE 0) + carry } }) } })

MulAdd(a, b, c) == MulAddFrom(a, b, c, 1, 0, << >>)

\* C30: for every amount and every decimals from 0 to 255 the divisor of
\* FormatTokenAmount is 10^decimals, reached without a multiplication that
\* wraps modulo 2^64, the division is not by zero, and the two parts satisfy
\* integer * 10^decimals + fraction = amount with fraction below the divisor.
C30_DivisorIsPowerOfTen ==
    (call # NoCall /\ call.fn = "FormatTokenAmount") =>
      /\ PowerOfTen(call.decimals).exact
      /\ ~ call.out.panicked
      /\ call.out.value.divisor # Zero64
      /\ Lt64(call.out.value.fractionalPart, call.out.value.divisor)
      /\ MulAdd(call.out.value.integerPart, call.out.value.divisor,
                call.out.value.fractionalPart) = call.amount \o Zero64

====
